---- MODULE Spec2Model ----
(***************************************************************************)
(* Ledger replay of the portfolio tracker: processActivityList and its     *)
(* per-action handlers (history.js), the Portfolio and Platform aggregates *)
(* and the four holding kinds with their change records.                   *)
(*                                                                         *)
(* Decimal amounts are modelled as integers (whole units), dates as        *)
(* positive integers (day numbers); 0 stands for "no date yet".            *)
(* A JS exception is modelled as a result with a non-empty err field; the  *)
(* object the call was mutating keeps the assignments made before the      *)
(* throw.                                                                  *)
(***************************************************************************)
EXTENDS Integers, Sequences, FiniteSets, TLC

\* ------------------------------------------------------------------ bounds
MaxTail == 2        \* entries of a ledger after its scenario's set-up prefix
MaxDate == 2        \* ledger dates are 1..MaxDate

Dates == 1..MaxDate

NoErr == ""

\* ------------------------------------------------------- history records
CashChangeType ==
    {"CASH_DEPOSIT", "CASH_TRANSFER", "CASH_CURRENCY_CONVERSION", "STOCK_BUY",
     "STOCK_SELL", "STOCK_DIVIDEND", "STOCK_PUBLIC_TO_PRIVATE_SHARE_CONVERSION",
     "STOCK_UNSPECIFIC_ACCOUNTING_INCOME", "INDEX_FUND_BUY", "INDEX_FUND_SELL",
     "BOND_BUY", "BOND_INTEREST"}

StockChangeType ==
    {"BUY", "SELL", "DIVIDEND", "PUBLIC_TO_PRIVATE_SHARE_CONVERSION",
     "UNSPECIFIC_ACCOUNTING_INCOME"}

IndexFundChangeType == {"BUY", "SELL"}

BondChangeType == {"BUY", "INTEREST"}

CashChangeRecord(date, valueChange, type) ==
    [date |-> date, valueChange |-> valueChange, type |-> type]

AssetChangeRecord(date, valueChange, cashChange, type) ==
    [date |-> date, valueChange |-> valueChange, cashChange |-> cashChange,
     type |-> type]

RECURSIVE getHistoryFieldSum(_, _)
getHistoryFieldSum(history, field) ==
    IF history = <<>> THEN 0
    ELSE Head(history)[field] + getHistoryFieldSum(Tail(history), field)

\* "" when the check passes, else the message of the Error it throws
validateHistoryChronological(history) ==
    IF Len(history) = 0 THEN "History cannot be empty."
    ELSE IF \E k \in 2..Len(history) : history[k].date < history[k - 1].date
         THEN "History is not in chronological order."
         ELSE NoErr

validateHistoryFieldSum(history, field, expectedSum) ==
    IF Len(history) = 0 THEN "History cannot be empty."
    ELSE IF getHistoryFieldSum(history, field) # expectedSum
         THEN "History sum does not match expected sum."
         ELSE NoErr

\* ------------------------------------------------ results of holding calls
\* h: the holding as the call left it; err # "" when the call threw
Thrown(h, msg) == [h |-> h, warnings |-> <<>>, err |-> msg]
Returned(h, warnings) == [h |-> h, warnings |-> warnings, err |-> NoErr]

\* ------------------------------------------------------------ CashHolding
NewCashHolding(currency) ==
    [currency |-> currency, value |-> 0, cashInterestSum |-> 0,
     history |-> <<>>]

CashHolding_updateValue(h, diff, date, type) ==
    IF diff = 0 THEN Thrown(h, "diff: Zero")
    ELSE
      LET h1 == [h EXCEPT !.value = @ + diff] IN
      IF type = "CASH_INTEREST" /\ diff <= 0 THEN Thrown(h1, "diff: Not positive")
      ELSE
        LET h2 == IF type = "CASH_INTEREST"
                  THEN [h1 EXCEPT !.cashInterestSum = @ + diff]
                  ELSE h1
        IN
        IF type \notin CashChangeType THEN Thrown(h2, "Invalid CashChangeType")
        ELSE
          LET h3 == [h2 EXCEPT !.history =
                         Append(@, CashChangeRecord(date, diff, type))]
          IN Returned(h3, IF h3.value < 0
                          THEN <<"Cash value has become negative.">>
                          ELSE <<>>)

CashHolding_validateAndFinalize(h) ==
    IF validateHistoryChronological(h.history) # NoErr
    THEN validateHistoryChronological(h.history)
    ELSE validateHistoryFieldSum(h.history, "valueChange", h.value)

\* ----------------------------------------------------------- StockHolding
\* latestUnitValueAndDate: <<>> is null, else a one-element sequence
NewStockHolding(code, friendlyName, currency) ==
    [code |-> code, friendlyName |-> friendlyName, currency |-> currency,
     shares |-> 0, buyCash |-> 0, sellCash |-> 0, incomeCash |-> 0,
     otherCash |-> 0, totalCash |-> 0, latestUnitValueAndDate |-> <<>>,
     history |-> <<>>]

\* stock.js 142-147: the tail of updateShares
StockHolding_record(h, diff, acquiredCash, date, type) ==
    LET h1 == [h EXCEPT !.totalCash = @ + acquiredCash] IN
    IF type \notin StockChangeType THEN Thrown(h1, "Invalid StockChangeType")
    ELSE
      LET h2 == [h1 EXCEPT !.history =
                     Append(@, AssetChangeRecord(date, diff, acquiredCash, type))]
      IN Returned(h2, IF h2.shares < 0
                      THEN <<"Asset count has become negative.">>
                      ELSE <<>>)

\* updateShares without its test of diff against zeroDiff
StockHolding_updateShares_anyDiff(h, diff, acquiredCash, date, zeroDiff, type, zeroCash, unitValue) ==
    IF ~zeroCash /\ acquiredCash = 0 THEN Thrown(h, "acquiredCash: Zero")
    ELSE IF zeroCash /\ acquiredCash # 0 THEN Thrown(h, "acquiredCash: Not a Zero")
    ELSE
      LET h1 == [h EXCEPT !.shares = @ + diff] IN
      IF type \in {"BUY", "SELL"}
      THEN
        IF unitValue = <<>> THEN Thrown(h1, "unitValue: Not a Decimal")
        ELSE IF unitValue[1] = 0 THEN Thrown(h1, "unitValue: Zero")
        ELSE
          LET h2 == [h1 EXCEPT !.latestUnitValueAndDate =
                         <<[value |-> unitValue[1], date |-> date]>>]
          IN
          IF type = "BUY"
          THEN IF acquiredCash >= 0 THEN Thrown(h2, "acquiredCash: Not negative")
               ELSE StockHolding_record([h2 EXCEPT !.buyCash = @ - acquiredCash],
                                        diff, acquiredCash, date, type)
          ELSE IF acquiredCash <= 0 THEN Thrown(h2, "acquiredCash: Not positive")
               ELSE StockHolding_record([h2 EXCEPT !.sellCash = @ + acquiredCash],
                                        diff, acquiredCash, date, type)
      ELSE
        IF unitValue # <<>> THEN Thrown(h1, "Unexpected unitValue")
        ELSE IF type \in {"DIVIDEND", "UNSPECIFIC_ACCOUNTING_INCOME"} /\ acquiredCash <= 0
        THEN Thrown(h1, "acquiredCash: Not positive")
        ELSE
          LET h2 == IF type \in {"DIVIDEND", "UNSPECIFIC_ACCOUNTING_INCOME"}
                    THEN [h1 EXCEPT !.incomeCash = @ + acquiredCash]
                    ELSE h1
          IN
          IF type = "PUBLIC_TO_PRIVATE_SHARE_CONVERSION" /\ acquiredCash >= 0
          THEN Thrown(h2, "acquiredCash: Not negative")
          ELSE
            LET h3 == IF type = "PUBLIC_TO_PRIVATE_SHARE_CONVERSION"
                      THEN [h2 EXCEPT !.otherCash = @ + acquiredCash]
                      ELSE h2
            IN
            IF type = "STOCK_SPLIT" /\ ~zeroCash
            THEN Thrown(h3, "Stock split must have zero cash change")
            ELSE StockHolding_record(h3, diff, acquiredCash, date, type)

\* unitValue: <<>> is null, <<u>> a Decimal u
StockHolding_updateShares(h, diff, acquiredCash, date, zeroDiff, type, zeroCash, unitValue) ==
    IF ~zeroDiff /\ diff = 0 THEN Thrown(h, "diff: Zero")
    ELSE IF zeroDiff /\ diff # 0 THEN Thrown(h, "diff: Not a Zero")
    ELSE IF ~zeroCash /\ acquiredCash = 0 THEN Thrown(h, "acquiredCash: Zero")
    ELSE IF zeroCash /\ acquiredCash # 0 THEN Thrown(h, "acquiredCash: Not a Zero")
    ELSE
      LET h1 == [h EXCEPT !.shares = @ + diff] IN
      IF type \in {"BUY", "SELL"}
      THEN
        IF unitValue = <<>> THEN Thrown(h1, "unitValue: Not a Decimal")
        ELSE IF unitValue[1] = 0 THEN Thrown(h1, "unitValue: Zero")
        ELSE
          LET h2 == [h1 EXCEPT !.latestUnitValueAndDate =
                         <<[value |-> unitValue[1], date |-> date]>>]
          IN
          IF type = "BUY"
          THEN IF acquiredCash >= 0 THEN Thrown(h2, "acquiredCash: Not negative")
               ELSE StockHolding_record([h2 EXCEPT !.buyCash = @ - acquiredCash],
                                        diff, acquiredCash, date, type)
          ELSE IF acquiredCash <= 0 THEN Thrown(h2, "acquiredCash: Not positive")
               ELSE StockHolding_record([h2 EXCEPT !.sellCash = @ + acquiredCash],
                                        diff, acquiredCash, date, type)
      ELSE
        IF unitValue # <<>> THEN Thrown(h1, "Unexpected unitValue")
        ELSE IF type \in {"DIVIDEND", "UNSPECIFIC_ACCOUNTING_INCOME"} /\ acquiredCash <= 0
        THEN Thrown(h1, "acquiredCash: Not positive")
        ELSE
          LET h2 == IF type \in {"DIVIDEND", "UNSPECIFIC_ACCOUNTING_INCOME"}
                    THEN [h1 EXCEPT !.incomeCash = @ + acquiredCash]
                    ELSE h1
          IN
          IF type = "PUBLIC_TO_PRIVATE_SHARE_CONVERSION" /\ acquiredCash >= 0
          THEN Thrown(h2, "acquiredCash: Not negative")
          ELSE
            LET h3 == IF type = "PUBLIC_TO_PRIVATE_SHARE_CONVERSION"
                      THEN [h2 EXCEPT !.otherCash = @ + acquiredCash]
                      ELSE h2
            IN
            IF type = "STOCK_SPLIT" /\ ~zeroCash
            THEN Thrown(h3, "Stock split must have zero cash change")
            ELSE StockHolding_record(h3, diff, acquiredCash, date, type)

\* ------------------------------------------------------------ BondHolding
NewBondHolding(code, friendlyName, currency) ==
    [code |-> code, friendlyName |-> friendlyName, currency |-> currency,
     shares |-> 0, buyCash |-> 0, interestCash |-> 0, totalCash |-> 0,
     latestUnitValueAndDate |-> <<>>, history |-> <<>>]

\* bond.js 90-95: the tail of updateShares
BondHolding_record(h, diff, acquiredCash, date, type) ==
    LET h1 == [h EXCEPT !.totalCash = @ + acquiredCash] IN
    IF type \notin BondChangeType THEN Thrown(h1, "Invalid BondChangeType")
    ELSE
      LET h2 == [h1 EXCEPT !.history =
                     Append(@, AssetChangeRecord(date, diff, acquiredCash, type))]
      IN Returned(h2, IF h2.shares < 0
                      THEN <<"Asset count has become negative.">>
                      ELSE <<>>)

BondHolding_updateShares(h, diff, acquiredCash, date, zeroDiff, type, unitValue) ==
    IF ~zeroDiff /\ diff = 0 THEN Thrown(h, "diff: Zero")
    ELSE IF zeroDiff /\ diff # 0 THEN Thrown(h, "diff: Not a Zero")
    ELSE IF acquiredCash = 0 THEN Thrown(h, "acquiredCash: Zero")
    ELSE
      LET h1 == [h EXCEPT !.shares = @ + diff] IN
      IF type = "BUY"
      THEN
        LET h2 == [h1 EXCEPT !.buyCash = @ + acquiredCash] IN
        IF unitValue = <<>> THEN Thrown(h2, "unitValue: Not a Decimal")
        ELSE IF unitValue[1] = 0 THEN Thrown(h2, "unitValue: Zero")
        ELSE BondHolding_record(
                 [h2 EXCEPT !.latestUnitValueAndDate =
                      <<[value |-> unitValue[1], date |-> date]>>],
                 diff, acquiredCash, date, type)
      ELSE
        LET h2 == IF type = "INTEREST"
                  THEN [h1 EXCEPT !.interestCash = @ + acquiredCash]
                  ELSE h1
        IN
        IF unitValue # <<>> THEN Thrown(h2, "Unexpected unitValue")
        ELSE BondHolding_record(h2, diff, acquiredCash, date, type)

\* ------------------------------------------------------- IndexFundHolding
NewIndexFundHolding(code, friendlyName, currency) ==
    [code |-> code, friendlyName |-> friendlyName, currency |-> currency,
     shares |-> 0, buyCash |-> 0, sellCash |-> 0, totalCash |-> 0,
     latestUnitValueAndDate |-> <<>>, history |-> <<>>]

\* index.js 105-110: the tail of updateShares
IndexFundHolding_record(h, diff, acquiredCash, date, type) ==
    LET h1 == [h EXCEPT !.totalCash = @ + acquiredCash] IN
    IF type \notin IndexFundChangeType THEN Thrown(h1, "Invalid IndexFundChangeType")
    ELSE
      LET h2 == [h1 EXCEPT !.history =
                     Append(@, AssetChangeRecord(date, diff, acquiredCash, type))]
      IN Returned(h2, IF h2.shares < 0
                      THEN <<"Asset count has become negative.">>
                      ELSE <<>>)

IndexFundHolding_updateShares(h, diff, acquiredCash, date, zeroDiff, type, unitValue) ==
    IF ~zeroDiff /\ diff = 0 THEN Thrown(h, "diff: Zero")
    ELSE IF zeroDiff /\ diff # 0 THEN Thrown(h, "diff: Not a Zero")
    ELSE IF acquiredCash = 0 THEN Thrown(h, "acquiredCash: Zero")
    ELSE
      LET h1 == [h EXCEPT !.shares = @ + diff] IN
      IF type \in {"BUY", "SELL"}
      THEN
        IF unitValue = <<>> THEN Thrown(h1, "unitValue: Not a Decimal")
        ELSE IF unitValue[1] = 0 THEN Thrown(h1, "unitValue: Zero")
        ELSE
          LET h2 == [h1 EXCEPT !.latestUnitValueAndDate =
                         <<[value |-> unitValue[1], date |-> date]>>]
          IN
          IF type = "BUY"
          THEN IF acquiredCash >= 0 THEN Thrown(h2, "acquiredCash: Not negative")
               ELSE IndexFundHolding_record([h2 EXCEPT !.buyCash = @ - acquiredCash],
                                            diff, acquiredCash, date, type)
          ELSE IF acquiredCash <= 0 THEN Thrown(h2, "acquiredCash: Not positive")
               ELSE IndexFundHolding_record([h2 EXCEPT !.sellCash = @ + acquiredCash],
                                            diff, acquiredCash, date, type)
      ELSE
        IF unitValue # <<>> THEN Thrown(h1, "Unexpected unitValue")
        ELSE IndexFundHolding_record(h1, diff, acquiredCash, date, type)

\* ------------------------------------- the identities finalize checks
StockCashIdentity(h) ==
    (-h.buyCash) + h.sellCash + h.incomeCash + h.otherCash = h.totalCash

BondCashIdentity(h) == h.buyCash + h.interestCash = h.totalCash

IndexFundCashIdentity(h) == (-h.buyCash) + h.sellCash = h.totalCash

\* ------------------------------------------------------- Platform, Portfolio
EmptyMap == [k \in {} |-> 0]

MapSet(m, k, v) == [x \in (DOMAIN m) \cup {k} |-> IF x = k THEN v ELSE m[x]]

NewPlatform ==
    [cashHoldings |-> EmptyMap, stockHoldings |-> EmptyMap,
     indexFundHoldings |-> EmptyMap, bondHoldings |-> EmptyMap]

NewPortfolio == [platforms |-> EmptyMap, latestDate |-> 0]

Portfolio_hasPlatform(pf, name) == name \in DOMAIN pf.platforms

\* the cash map left out of the look-up
Platform_validateAssetCodeUnique_noCash(platform, code) ==
    IF code \in DOMAIN platform.stockHoldings THEN "Stock holding exists"
    ELSE IF code \in DOMAIN platform.indexFundHoldings THEN "Index fund exists"
    ELSE IF code \in DOMAIN platform.bondHoldings THEN "Bond holding exists"
    ELSE NoErr

\* "" on success, else the message of the failure VRes
Platform_validateAssetCodeUnique(platform, code) ==
    IF code \in DOMAIN platform.cashHoldings THEN "Cash holding exists"
    ELSE IF code \in DOMAIN platform.stockHoldings THEN "Stock holding exists"
    ELSE IF code \in DOMAIN platform.indexFundHoldings THEN "Index fund exists"
    ELSE IF code \in DOMAIN platform.bondHoldings THEN "Bond holding exists"
    ELSE NoErr

\* the bond map left out of the look-up
Platform_validateAssetNameUnique_noBond(platform, name) ==
    IF \E c \in DOMAIN platform.stockHoldings :
           platform.stockHoldings[c].friendlyName = name
    THEN "Cash holding (name) exists"
    ELSE IF \E c \in DOMAIN platform.indexFundHoldings :
                platform.indexFundHoldings[c].friendlyName = name
    THEN "Index fund (name) exists"
    ELSE NoErr

Platform_validateAssetNameUnique(platform, name) ==
    IF \E c \in DOMAIN platform.stockHoldings :
           platform.stockHoldings[c].friendlyName = name
    THEN "Cash holding (name) exists"
    ELSE IF \E c \in DOMAIN platform.indexFundHoldings :
                platform.indexFundHoldings[c].friendlyName = name
    THEN "Index fund (name) exists"
    ELSE IF \E c \in DOMAIN platform.bondHoldings :
                platform.bondHoldings[c].friendlyName = name
    THEN "Bond holding (name) exists"
    ELSE NoErr

\* the add* methods: [p: the platform afterwards, err]
Platform_addCashHolding(platform, cashHolding) ==
    LET e == Platform_validateAssetCodeUnique(platform, cashHolding.currency) IN
    IF e # NoErr THEN [p |-> platform, err |-> e]
    ELSE [p |-> [platform EXCEPT !.cashHoldings =
                     MapSet(@, cashHolding.currency, cashHolding)],
          err |-> NoErr]

Platform_addStockHolding(platform, stockHolding) ==
    LET e1 == Platform_validateAssetCodeUnique(platform, stockHolding.code)
        e2 == Platform_validateAssetNameUnique(platform, stockHolding.friendlyName)
    IN
    IF e1 # NoErr THEN [p |-> platform, err |-> e1]
    ELSE IF e2 # NoErr THEN [p |-> platform, err |-> e2]
    ELSE [p |-> [platform EXCEPT !.stockHoldings =
                     MapSet(@, stockHolding.code, stockHolding)],
          err |-> NoErr]

Platform_addIndexFundHolding(platform, indexFundHolding) ==
    LET e1 == Platform_validateAssetCodeUnique(platform, indexFundHolding.code)
        e2 == Platform_validateAssetNameUnique(platform, indexFundHolding.friendlyName)
    IN
    IF e1 # NoErr THEN [p |-> platform, err |-> e1]
    ELSE IF e2 # NoErr THEN [p |-> platform, err |-> e2]
    ELSE [p |-> [platform EXCEPT !.indexFundHoldings =
                     MapSet(@, indexFundHolding.code, indexFundHolding)],
          err |-> NoErr]

Platform_addBondHolding(platform, bondHolding) ==
    LET e1 == Platform_validateAssetCodeUnique(platform, bondHolding.code)
        e2 == Platform_validateAssetNameUnique(platform, bondHolding.friendlyName)
    IN
    IF e1 # NoErr THEN [p |-> platform, err |-> e1]
    ELSE IF e2 # NoErr THEN [p |-> platform, err |-> e2]
    ELSE [p |-> [platform EXCEPT !.bondHoldings =
                     MapSet(@, bondHolding.code, bondHolding)],
          err |-> NoErr]

\* a comparison written the wrong way round
IsEarlier_reversed(date, latestDate) == latestDate # 0 /\ date > latestDate

\* the date gate: [pf, err]; the watermark moves only when the gate passes
IsEarlier(date, latestDate) == latestDate # 0 /\ date < latestDate

\* the watermark set without the comparison
Portfolio_setSameOrLaterDate_noGate(pf, date) ==
    [pf |-> [pf EXCEPT !.latestDate = date], err |-> NoErr]

Portfolio_setSameOrLaterDate(pf, date) ==
    IF IsEarlier(date, pf.latestDate)
    THEN [pf |-> pf, err |-> "Date earlier than latest date"]
    ELSE [pf |-> [pf EXCEPT !.latestDate = date], err |-> NoErr]

\* ------------------------------------------- the running state of a handler
\* pf: the portfolio as mutated so far; warnings: the handler's local
\* warnings array; err # "" once an Error has been thrown
Throw(pf, warnings, msg) == [pf |-> pf, warnings |-> warnings, err |-> msg]
Return(pf, warnings) == [pf |-> pf, warnings |-> warnings, err |-> NoErr]

\* warnings = warnings.concat(platform.getCashHolding(currency).updateValue(..))
updateCash(ctx, platformName, currency, diff, date, type) ==
    IF ctx.err # NoErr THEN ctx
    ELSE
      LET platform == ctx.pf.platforms[platformName] IN
      IF currency \notin DOMAIN platform.cashHoldings
      THEN Throw(ctx.pf, ctx.warnings, "No cash holding for currency")
      ELSE
        LET r == CashHolding_updateValue(platform.cashHoldings[currency],
                                         diff, date, type)
        IN [pf |-> [ctx.pf EXCEPT
                      !.platforms[platformName].cashHoldings[currency] = r.h],
            warnings |-> ctx.warnings \o r.warnings,
            err |-> r.err]

\* warnings = warnings.concat(stockHolding.updateShares(..))
updateStock(ctx, platformName, code, diff, acquiredCash, date, zeroDiff, type, zeroCash, unitValue) ==
    IF ctx.err # NoErr THEN ctx
    ELSE
      LET platform == ctx.pf.platforms[platformName] IN
      IF code \notin DOMAIN platform.stockHoldings
      THEN Throw(ctx.pf, ctx.warnings, "No stock holding for code")
      ELSE
        LET r == StockHolding_updateShares(platform.stockHoldings[code], diff,
                     acquiredCash, date, zeroDiff, type, zeroCash, unitValue)
        IN [pf |-> [ctx.pf EXCEPT
                      !.platforms[platformName].stockHoldings[code] = r.h],
            warnings |-> ctx.warnings \o r.warnings,
            err |-> r.err]

updateBond(ctx, platformName, code, diff, acquiredCash, date, zeroDiff, type, unitValue) ==
    IF ctx.err # NoErr THEN ctx
    ELSE
      LET platform == ctx.pf.platforms[platformName] IN
      IF code \notin DOMAIN platform.bondHoldings
      THEN Throw(ctx.pf, ctx.warnings, "No bond holding for code")
      ELSE
        LET r == BondHolding_updateShares(platform.bondHoldings[code], diff,
                     acquiredCash, date, zeroDiff, type, unitValue)
        IN [pf |-> [ctx.pf EXCEPT
                      !.platforms[platformName].bondHoldings[code] = r.h],
            warnings |-> ctx.warnings \o r.warnings,
            err |-> r.err]

updateIndexFund(ctx, platformName, code, diff, acquiredCash, date, zeroDiff, type, unitValue) ==
    IF ctx.err # NoErr THEN ctx
    ELSE
      LET platform == ctx.pf.platforms[platformName] IN
      IF code \notin DOMAIN platform.indexFundHoldings
      THEN Throw(ctx.pf, ctx.warnings, "No index fund holding for code")
      ELSE
        LET r == IndexFundHolding_updateShares(platform.indexFundHoldings[code],
                     diff, acquiredCash, date, zeroDiff, type, unitValue)
        IN [pf |-> [ctx.pf EXCEPT
                      !.platforms[platformName].indexFundHoldings[code] = r.h],
            warnings |-> ctx.warnings \o r.warnings,
            err |-> r.err]

\* ------------------------------------------------------------ the handlers
WarnIf(cond, msg) == IF cond THEN <<msg>> ELSE <<>>

\* A Decimal is digits * 10^-places. The ledger entries of this model carry
\* whole amounts, NewDecimal(n, 0); the validators below compute on Decimals.
RECURSIVE Pow10(_)
Pow10(k) == IF k = 0 THEN 1 ELSE 10 * Pow10(k - 1)

NewDecimal(digits, places) == [digits |-> digits, places |-> places]

Whole(n) == NewDecimal(n, 0)

Decimal_times(a, b) == NewDecimal(a.digits * b.digits, a.places + b.places)

Decimal_equals(a, b) ==
    LET places == IF a.places > b.places THEN a.places ELSE b.places IN
    a.digits * Pow10(places - a.places) = b.digits * Pow10(places - b.places)

\* the number of decimal places the value needs: trailing zeros do not count
RECURSIVE Decimal_decimalPlaces(_)
Decimal_decimalPlaces(d) ==
    IF d.places = 0 \/ d.digits % 10 # 0 THEN d.places
    ELSE Decimal_decimalPlaces(NewDecimal(d.digits \div 10, d.places - 1))

\* toDecimalPlaces(dp, rounding): ROUND_HALF_UP, the library's default, rounds
\* to the nearest and a tie away from zero; ROUND_FLOOR rounds down
Decimal_toDecimalPlaces(d, dp, rounding) ==
    IF d.places <= dp THEN d
    ELSE LET q == Pow10(d.places - dp) IN
         CASE rounding = "ROUND_FLOOR" -> NewDecimal(d.digits \div q, dp)
           [] rounding = "ROUND_HALF_UP" ->
                  IF d.digits >= 0
                  THEN NewDecimal((d.digits + (q \div 2)) \div q, dp)
                  ELSE NewDecimal(-(((-d.digits) + (q \div 2)) \div q), dp)

\* a validator that compares with the product as it is
validateTotalSharesTransactionValue_unrounded(unitValue, totalShares, totalValue) ==
    WarnIf(~Decimal_equals(totalValue, Decimal_times(unitValue, totalShares)),
           "Total value does not match the product of share count and unit value.")

validateTotalSharesTransactionValue(unitValue, totalShares, totalValue) ==
    LET product == Decimal_times(unitValue, totalShares)
        expectedTotalValueDecimal ==
            IF Decimal_decimalPlaces(product) > 2
            THEN Decimal_toDecimalPlaces(product, 2, "ROUND_HALF_UP")
            ELSE product
    IN WarnIf(~Decimal_equals(totalValue, expectedTotalValueDecimal),
              "Total value does not match the product of share count and unit value.")

validateTotalSharesSplitValue(fromTotalShares, multiplier, toTotalShares) ==
    WarnIf(toTotalShares # fromTotalShares * multiplier,
           "Total shares does not match the product of initial total shares and multiplier.")

validateCurrencyConversionTransactionValue(fromToCoefficient, fromValue, toValue) ==
    LET expectedToValue == Decimal_times(fromToCoefficient, fromValue)
        roundedValue ==
            IF Decimal_decimalPlaces(expectedToValue) > 2
            THEN Decimal_toDecimalPlaces(expectedToValue, 2, "ROUND_HALF_UP")
            ELSE expectedToValue
        flooredValue ==
            IF Decimal_decimalPlaces(expectedToValue) > 2
            THEN Decimal_toDecimalPlaces(expectedToValue, 2, "ROUND_FLOOR")
            ELSE expectedToValue
    IN WarnIf(~Decimal_equals(toValue, roundedValue)
                  /\ ~Decimal_equals(toValue, flooredValue),
              "To value does not match the product of from value and from-to coefficient.")

\* the checks repeated by Dividend, bond Interest and cash Interest
IncomeValuesError(item) ==
    IF item.grossValue <= 0 THEN "Gross value is not a positive amount"
    ELSE IF item.netValue <= 0 THEN "Net value is not a positive amount"
    ELSE IF item.taxValue < 0 THEN "Tax value is not a non-negative amount"
    ELSE IF item.netValue > item.grossValue THEN "Net value cannot be greater than gross value"
    ELSE IF item.taxValue > item.grossValue THEN "Tax value cannot be greater than gross value"
    ELSE IF item.grossValue # item.netValue + item.taxValue
    THEN "Gross value does not match the sum of net value and tax value"
    ELSE NoErr

processActionPublicToPrivateShareConversion(item, pf) ==
    IF ~Portfolio_hasPlatform(pf, item.platform) THEN Throw(pf, <<>>, "Platform does not exist")
    ELSE
      LET platform == pf.platforms[item.platform] IN
      IF item.assetCode \notin DOMAIN platform.stockHoldings
      THEN Throw(pf, <<>>, "No stock holding for code")
      ELSE IF platform.stockHoldings[item.assetCode].currency # item.currency
      THEN Throw(pf, <<>>, "Currency does not match the existing asset currency")
      ELSE
        LET w == WarnIf(item.feeValue <= 0, "Fee value is not a positive amount.")
            cashChange == -item.feeValue
            c1 == updateCash(Return(pf, w), item.platform, item.currency, cashChange,
                             item.date, "STOCK_PUBLIC_TO_PRIVATE_SHARE_CONVERSION")
        IN updateStock(c1, item.platform, item.assetCode, 0, cashChange, item.date,
                       TRUE, "PUBLIC_TO_PRIVATE_SHARE_CONVERSION", FALSE, <<>>)

processActionUnspecificAccountingIncomeAction(item, pf) ==
    IF ~Portfolio_hasPlatform(pf, item.platform) THEN Throw(pf, <<>>, "Platform does not exist")
    ELSE
      LET platform == pf.platforms[item.platform] IN
      IF item.assetCode \notin DOMAIN platform.stockHoldings
      THEN Throw(pf, <<>>, "No stock holding for code")
      ELSE IF platform.stockHoldings[item.assetCode].currency # item.currency
      THEN Throw(pf, <<>>, "Currency does not match the existing asset currency")
      ELSE
        LET w == WarnIf(item.totalValue <= 0, "Total value is not a positive amount.")
            c1 == updateCash(Return(pf, w), item.platform, item.currency, item.totalValue,
                             item.date, "STOCK_UNSPECIFIC_ACCOUNTING_INCOME")
        IN updateStock(c1, item.platform, item.assetCode, 0, item.totalValue, item.date,
                       TRUE, "UNSPECIFIC_ACCOUNTING_INCOME", FALSE, <<>>)

\* the source debited by the total value alone
processActionTransfer_feeNotCharged(item, pf) ==
    IF ~Portfolio_hasPlatform(pf, item.fromPlatform) THEN Throw(pf, <<>>, "From platform does not exist")
    ELSE IF ~Portfolio_hasPlatform(pf, item.toPlatform) THEN Throw(pf, <<>>, "To platform does not exist")
    ELSE IF item.totalValue <= 0 THEN Throw(pf, <<>>, "Total value is not a positive amount")
    ELSE IF item.feeValue < 0 THEN Throw(pf, <<>>, "Fee value is not a non-negative amount")
    ELSE
      LET c1 == updateCash(Return(pf, <<>>), item.fromPlatform, item.currency,
                           -item.totalValue, item.date, "CASH_TRANSFER")
      IN updateCash(c1, item.toPlatform, item.currency, item.totalValue,
                    item.date, "CASH_TRANSFER")

processActionTransfer(item, pf) ==
    IF ~Portfolio_hasPlatform(pf, item.fromPlatform) THEN Throw(pf, <<>>, "From platform does not exist")
    ELSE IF ~Portfolio_hasPlatform(pf, item.toPlatform) THEN Throw(pf, <<>>, "To platform does not exist")
    ELSE IF item.totalValue <= 0 THEN Throw(pf, <<>>, "Total value is not a positive amount")
    ELSE IF item.feeValue < 0 THEN Throw(pf, <<>>, "Fee value is not a non-negative amount")
    ELSE
      LET c1 == updateCash(Return(pf, <<>>), item.fromPlatform, item.currency,
                           -(item.totalValue + item.feeValue), item.date, "CASH_TRANSFER")
      IN updateCash(c1, item.toPlatform, item.currency, item.totalValue,
                    item.date, "CASH_TRANSFER")

processActionCurrencyConversion(item, pf) ==
    IF ~Portfolio_hasPlatform(pf, item.platform) THEN Throw(pf, <<>>, "Platform does not exist")
    ELSE IF item.fromValue <= 0 THEN Throw(pf, <<>>, "From value is not a positive amount")
    ELSE IF item.toValue <= 0 THEN Throw(pf, <<>>, "To value is not a positive amount")
    ELSE IF item.fromToCoefficient <= 0 THEN Throw(pf, <<>>, "From-to coefficient must be a positive number")
    ELSE
      LET w == validateCurrencyConversionTransactionValue(
                   Whole(item.fromToCoefficient), Whole(item.fromValue),
                   Whole(item.toValue))
      IN
      IF item.feeValue < 0 THEN Throw(pf, w, "Fee value is not a non-negative amount")
      ELSE
        LET c1 == updateCash(Return(pf, w), item.platform, item.fromCurrency,
                             -(item.fromValue + item.feeValue), item.date,
                             "CASH_CURRENCY_CONVERSION")
        IN updateCash(c1, item.platform, item.toCurrency, item.toValue,
                      item.date, "CASH_CURRENCY_CONVERSION")

processActionDividend(item, pf) ==
    IF ~Portfolio_hasPlatform(pf, item.platform) THEN Throw(pf, <<>>, "Platform does not exist")
    ELSE
      LET platform == pf.platforms[item.platform] IN
      IF item.assetCode \notin DOMAIN platform.stockHoldings
      THEN Throw(pf, <<>>, "No stock holding for code")
      ELSE IF platform.stockHoldings[item.assetCode].currency # item.currency
      THEN Throw(pf, <<>>, "Currency does not match the existing asset currency")
      ELSE IF IncomeValuesError(item) # NoErr THEN Throw(pf, <<>>, IncomeValuesError(item))
      ELSE
        LET c1 == updateCash(Return(pf, <<>>), item.platform, item.currency,
                             item.netValue, item.date, "STOCK_DIVIDEND")
        IN updateStock(c1, item.platform, item.assetCode, 0, item.netValue, item.date,
                       TRUE, "DIVIDEND", FALSE, <<>>)

processActionStockSplit(item, pf) ==
    IF ~Portfolio_hasPlatform(pf, item.platform) THEN Throw(pf, <<>>, "Platform does not exist")
    ELSE
      LET platform == pf.platforms[item.platform] IN
      IF item.assetCode \notin DOMAIN platform.stockHoldings
      THEN Throw(pf, <<>>, "No stock holding for code")
      ELSE IF platform.stockHoldings[item.assetCode].currency # item.currency
      THEN Throw(pf, <<>>, "Currency does not match the existing asset currency")
      ELSE IF item.fromToCoefficient <= 0 THEN Throw(pf, <<>>, "Multiplier must be a positive number")
      ELSE IF item.fromTotalShares <= 0 THEN Throw(pf, <<>>, "From total shares is not a positive number")
      ELSE IF item.toTotalShares <= 0 THEN Throw(pf, <<>>, "To total shares is not a positive number")
      ELSE IF item.fromTotalShares # platform.stockHoldings[item.assetCode].shares
      THEN Throw(pf, <<>>, "Initial total shares does not match the current total shares held")
      ELSE
        LET w == validateTotalSharesSplitValue(item.fromTotalShares,
                     item.fromToCoefficient, item.toTotalShares)
            updateDiff == item.toTotalShares - item.fromTotalShares
        IN updateStock(Return(pf, w), item.platform, item.assetCode, updateDiff, 0,
                       item.date, FALSE, "STOCK_SPLIT", TRUE, <<>>)

processActionInterestBond(item, pf) ==
    LET platform == pf.platforms[item.platform] IN
    IF item.assetCode \notin DOMAIN platform.bondHoldings
    THEN Throw(pf, <<>>, "No bond holding for code")
    ELSE IF platform.bondHoldings[item.assetCode].currency # item.currency
    THEN Throw(pf, <<>>, "Currency does not match the existing asset currency")
    ELSE IF IncomeValuesError(item) # NoErr THEN Throw(pf, <<>>, IncomeValuesError(item))
    ELSE
      LET c1 == updateCash(Return(pf, <<>>), item.platform, item.currency,
                           item.netValue, item.date, "BOND_INTEREST")
      IN updateBond(c1, item.platform, item.assetCode, 0, item.netValue, item.date,
                    TRUE, "INTEREST", <<>>)

processActionInterestCash(item, pf) ==
    LET platform == pf.platforms[item.platform] IN
    IF item.currency \notin DOMAIN platform.cashHoldings
    THEN Throw(pf, <<>>, "No cash holding for currency")
    ELSE IF IncomeValuesError(item) # NoErr THEN Throw(pf, <<>>, IncomeValuesError(item))
    ELSE updateCash(Return(pf, <<>>), item.platform, item.currency, item.netValue,
                    item.date, "CASH_INTEREST")

processActionInterest(item, pf) ==
    IF ~Portfolio_hasPlatform(pf, item.platform) THEN Throw(pf, <<>>, "Platform does not exist")
    ELSE IF item.assetType = "Cash" THEN processActionInterestCash(item, pf)
    ELSE IF item.assetType = "Bond" THEN processActionInterestBond(item, pf)
    ELSE Throw(pf, <<>>, "Processing of Interest for asset type is not implemented")

\* the fee left out of the spent cash
processActionBuyStock_feeIgnored(item, pf) ==
    LET platform == pf.platforms[item.platform] IN
    IF item.assetCode \notin DOMAIN platform.stockHoldings
    THEN Throw(pf, <<>>, "No stock holding for code")
    ELSE IF item.totalShares < 0 THEN Throw(pf, <<>>, "Share count is not a positive number")
    ELSE IF platform.stockHoldings[item.assetCode].currency # item.currency
    THEN Throw(pf, <<>>, "Currency does not match the existing asset currency")
    ELSE
      LET w == WarnIf(item.unitValue <= 0, "Unit value is not a positive amount.")
               \o WarnIf(item.totalValue <= 0, "Total value is not a positive amount.")
               \o validateTotalSharesTransactionValue(Whole(item.unitValue),
                      Whole(item.totalShares), Whole(item.totalValue))
          spentCash == -item.totalValue
          c1 == updateCash(Return(pf, w), item.platform, item.currency, spentCash,
                           item.date, "STOCK_BUY")
      IN updateStock(c1, item.platform, item.assetCode, item.totalShares, spentCash,
                     item.date, FALSE, "BUY", FALSE, <<item.unitValue>>)

processActionBuyStock(item, pf) ==
    LET platform == pf.platforms[item.platform] IN
    IF item.assetCode \notin DOMAIN platform.stockHoldings
    THEN Throw(pf, <<>>, "No stock holding for code")
    ELSE IF item.totalShares < 0 THEN Throw(pf, <<>>, "Share count is not a positive number")
    ELSE IF platform.stockHoldings[item.assetCode].currency # item.currency
    THEN Throw(pf, <<>>, "Currency does not match the existing asset currency")
    ELSE
      LET w == WarnIf(item.unitValue <= 0, "Unit value is not a positive amount.")
               \o WarnIf(item.totalValue <= 0, "Total value is not a positive amount.")
               \o validateTotalSharesTransactionValue(Whole(item.unitValue),
                      Whole(item.totalShares), Whole(item.totalValue))
          spentCash == -(item.totalValue + item.feeValue)
          c1 == updateCash(Return(pf, w), item.platform, item.currency, spentCash,
                           item.date, "STOCK_BUY")
      IN updateStock(c1, item.platform, item.assetCode, item.totalShares, spentCash,
                     item.date, FALSE, "BUY", FALSE, <<item.unitValue>>)

processActionBuyBond(item, pf) ==
    LET platform == pf.platforms[item.platform] IN
    IF item.assetCode \notin DOMAIN platform.bondHoldings
    THEN Throw(pf, <<>>, "No bond holding for code")
    ELSE IF item.totalShares < 0 THEN Throw(pf, <<>>, "Share count is not a positive number")
    ELSE IF platform.bondHoldings[item.assetCode].currency # item.currency
    THEN Throw(pf, <<>>, "Currency does not match the existing asset currency")
    ELSE
      LET w0 == WarnIf(item.unitValue <= 0, "Unit value is not a positive amount.")
                \o WarnIf(item.totalValue <= 0, "Total value is not a positive amount.")
      IN
      IF item.feeValue < 0 THEN Throw(pf, w0, "Fee value is not a non-negative amount")
      ELSE
        LET w == w0 \o validateTotalSharesTransactionValue(Whole(item.unitValue),
                           Whole(item.totalShares), Whole(item.totalValue))
            spentCash == -(item.totalValue + item.feeValue)
            c1 == updateCash(Return(pf, w), item.platform, item.currency, spentCash,
                             item.date, "BOND_BUY")
        IN updateBond(c1, item.platform, item.assetCode, item.totalShares, spentCash,
                      item.date, FALSE, "BUY", <<item.unitValue>>)

processActionBuyIndexFund(item, pf) ==
    LET platform == pf.platforms[item.platform] IN
    IF item.assetCode \notin DOMAIN platform.indexFundHoldings
    THEN Throw(pf, <<>>, "No index fund holding for code")
    ELSE IF platform.indexFundHoldings[item.assetCode].currency # item.currency
    THEN Throw(pf, <<>>, "Currency does not match the existing asset currency")
    ELSE
      LET w0 == WarnIf(item.totalValue <= 0, "Total value is not a positive amount.") IN
      IF item.totalShares <= 0 THEN Throw(pf, w0, "Share count is not a positive number")
      ELSE IF item.unitValue <= 0 THEN Throw(pf, w0, "Unit value is not a positive amount.")
      ELSE
        LET w == w0 \o validateTotalSharesTransactionValue(Whole(item.unitValue),
                           Whole(item.totalShares), Whole(item.totalValue))
            spentCash == -item.totalValue
            c1 == updateCash(Return(pf, w), item.platform, item.currency, spentCash,
                             item.date, "INDEX_FUND_BUY")
        IN updateIndexFund(c1, item.platform, item.assetCode, item.totalShares,
                           spentCash, item.date, FALSE, "BUY", <<item.unitValue>>)

processActionBuy(item, pf) ==
    IF ~Portfolio_hasPlatform(pf, item.platform) THEN Throw(pf, <<>>, "Platform does not exist")
    ELSE IF item.assetType = "Stock" THEN processActionBuyStock(item, pf)
    ELSE IF item.assetType = "IndexFund" THEN processActionBuyIndexFund(item, pf)
    ELSE IF item.assetType = "Bond" THEN processActionBuyBond(item, pf)
    ELSE Throw(pf, <<>>, "Processing of Buy for asset type is not implemented")

\* the fee added to the proceeds instead of taken off them
processActionSellStock_feeAdded(item, pf) ==
    LET platform == pf.platforms[item.platform] IN
    IF item.assetCode \notin DOMAIN platform.stockHoldings
    THEN Throw(pf, <<>>, "No stock holding for code")
    ELSE IF item.totalShares < 0 THEN Throw(pf, <<>>, "Share count is not a positive number")
    ELSE IF platform.stockHoldings[item.assetCode].currency # item.currency
    THEN Throw(pf, <<>>, "Currency does not match the existing asset currency")
    ELSE
      LET w == WarnIf(item.unitValue <= 0, "Unit value is not a positive amount.")
               \o WarnIf(item.totalValue <= 0, "Total value is not a positive amount.")
               \o validateTotalSharesTransactionValue(Whole(item.unitValue),
                      Whole(item.totalShares), Whole(item.totalValue))
      IN
      IF item.feeValue < 0 THEN Throw(pf, w, "Fee value is not a non-negative amount")
      ELSE IF item.feeValue >= item.totalValue
      THEN Throw(pf, w, "Fee value is not smaller than total value")
      ELSE
        LET acquiredCash == item.totalValue + item.feeValue
            c1 == updateCash(Return(pf, w), item.platform, item.currency, acquiredCash,
                             item.date, "STOCK_SELL")
        IN updateStock(c1, item.platform, item.assetCode, -item.totalShares,
                       acquiredCash, item.date, FALSE, "SELL", FALSE, <<item.unitValue>>)

processActionSellStock(item, pf) ==
    LET platform == pf.platforms[item.platform] IN
    IF item.assetCode \notin DOMAIN platform.stockHoldings
    THEN Throw(pf, <<>>, "No stock holding for code")
    ELSE IF item.totalShares < 0 THEN Throw(pf, <<>>, "Share count is not a positive number")
    ELSE IF platform.stockHoldings[item.assetCode].currency # item.currency
    THEN Throw(pf, <<>>, "Currency does not match the existing asset currency")
    ELSE
      LET w == WarnIf(item.unitValue <= 0, "Unit value is not a positive amount.")
               \o WarnIf(item.totalValue <= 0, "Total value is not a positive amount.")
               \o validateTotalSharesTransactionValue(Whole(item.unitValue),
                      Whole(item.totalShares), Whole(item.totalValue))
      IN
      IF item.feeValue < 0 THEN Throw(pf, w, "Fee value is not a non-negative amount")
      ELSE IF item.feeValue >= item.totalValue
      THEN Throw(pf, w, "Fee value is not smaller than total value")
      ELSE
        LET acquiredCash == item.totalValue - item.feeValue
            c1 == updateCash(Return(pf, w), item.platform, item.currency, acquiredCash,
                             item.date, "STOCK_SELL")
        IN updateStock(c1, item.platform, item.assetCode, -item.totalShares,
                       acquiredCash, item.date, FALSE, "SELL", FALSE, <<item.unitValue>>)

processActionSellIndexFund(item, pf) ==
    LET platform == pf.platforms[item.platform] IN
    IF item.assetCode \notin DOMAIN platform.indexFundHoldings
    THEN Throw(pf, <<>>, "No index fund holding for code")
    ELSE IF platform.indexFundHoldings[item.assetCode].currency # item.currency
    THEN Throw(pf, <<>>, "Currency does not match the existing asset currency")
    ELSE
      LET w0 == WarnIf(item.totalValue <= 0, "Total value is not a positive amount.") IN
      IF item.totalShares <= 0 THEN Throw(pf, w0, "Share count is not a positive number")
      ELSE IF item.unitValue <= 0 THEN Throw(pf, w0, "Unit value is not a positive amount.")
      ELSE
        LET w == w0 \o validateTotalSharesTransactionValue(Whole(item.unitValue),
                           Whole(item.totalShares), Whole(item.totalValue))
            acquiredCash == item.totalValue
            c1 == updateCash(Return(pf, w), item.platform, item.currency, acquiredCash,
                             item.date, "INDEX_FUND_SELL")
        IN updateIndexFund(c1, item.platform, item.assetCode, -item.totalShares,
                           acquiredCash, item.date, FALSE, "SELL", <<item.unitValue>>)

\* a dispatcher that lacks the IndexFund branch
processActionSell_stockOnly(item, pf) ==
    IF ~Portfolio_hasPlatform(pf, item.platform)
    THEN Throw(pf, <<>>, "Platform does not exist")
    ELSE IF item.assetType = "Stock" THEN processActionSellStock(item, pf)
    ELSE Throw(pf, <<>>, "Processing of Sell for asset type is not implemented")

processActionSell(item, pf) ==
    IF ~Portfolio_hasPlatform(pf, item.platform) THEN Throw(pf, <<>>, "Platform does not exist")
    ELSE IF item.assetType = "Stock" THEN processActionSellStock(item, pf)
    ELSE IF item.assetType = "IndexFund" THEN processActionSellIndexFund(item, pf)
    ELSE Throw(pf, <<>>, "Processing of Sell for asset type is not implemented")

processActionDeposit(item, pf) ==
    IF ~Portfolio_hasPlatform(pf, item.platform) THEN Throw(pf, <<>>, "Platform does not exist")
    ELSE IF item.totalValue <= 0 THEN Throw(pf, <<>>, "Total value is not a positive amount")
    ELSE updateCash(Return(pf, <<>>), item.platform, item.currency, item.totalValue,
                    item.date, "CASH_DEPOSIT")

\* a Check that sets the balance to the asserted amount on a mismatch
processActionCheckCash_adjusting(item, pf) ==
    LET platform == pf.platforms[item.platform] IN
    IF item.currency \notin DOMAIN platform.cashHoldings
    THEN Throw(pf, <<>>, "No cash holding for currency")
    ELSE IF platform.cashHoldings[item.currency].value # item.totalValue
    THEN Return([pf EXCEPT !.platforms[item.platform].cashHoldings[item.currency].value =
                     item.totalValue],
                <<"Current cash amount differs from expected">>)
    ELSE Return(pf, <<>>)

\* a mismatch thrown instead of pushed onto the warnings
processActionCheckCash_fatal(item, pf) ==
    LET platform == pf.platforms[item.platform] IN
    IF item.currency \notin DOMAIN platform.cashHoldings
    THEN Throw(pf, <<>>, "No cash holding for currency")
    ELSE IF platform.cashHoldings[item.currency].value # item.totalValue
    THEN Throw(pf, <<>>, "Current cash amount differs from expected")
    ELSE Return(pf, <<>>)

processActionCheckCash(item, pf) ==
    LET platform == pf.platforms[item.platform] IN
    IF item.currency \notin DOMAIN platform.cashHoldings
    THEN Throw(pf, <<>>, "No cash holding for currency")
    ELSE Return(pf, WarnIf(platform.cashHoldings[item.currency].value # item.totalValue,
                           "Current cash amount differs from expected"))

processActionCheckStock(item, pf) ==
    LET platform == pf.platforms[item.platform] IN
    IF item.assetCode \notin DOMAIN platform.stockHoldings
    THEN Throw(pf, <<>>, "No stock holding for code")
    ELSE Return(pf, WarnIf(platform.stockHoldings[item.assetCode].shares # item.totalShares,
                           "Current shares amount for stock differs from expected"))

processActionCheckBond(item, pf) ==
    LET platform == pf.platforms[item.platform] IN
    IF item.assetCode \notin DOMAIN platform.bondHoldings
    THEN Throw(pf, <<>>, "No bond holding for code")
    ELSE Return(pf, WarnIf(platform.bondHoldings[item.assetCode].shares # item.totalShares,
                           "Current shares amount for bond differs from expected"))

processActionCheckIndexFund(item, pf) ==
    LET platform == pf.platforms[item.platform] IN
    IF item.assetCode \notin DOMAIN platform.indexFundHoldings
    THEN Throw(pf, <<>>, "No index fund holding for code")
    ELSE Return(pf, WarnIf(platform.indexFundHoldings[item.assetCode].shares # item.totalShares,
                           "Current shares amount for index fund differs from expected"))

processActionCheck(item, pf) ==
    IF ~Portfolio_hasPlatform(pf, item.platform) THEN Throw(pf, <<>>, "Platform does not exist")
    ELSE IF item.assetType = "Cash" THEN processActionCheckCash(item, pf)
    ELSE IF item.assetType = "Stock" THEN processActionCheckStock(item, pf)
    ELSE IF item.assetType = "Bond" THEN processActionCheckBond(item, pf)
    ELSE IF item.assetType = "IndexFund" THEN processActionCheckIndexFund(item, pf)
    ELSE Throw(pf, <<>>, "Processing of Check for asset type is not implemented")

\* portfolioObj.addPlatform(new Platform(item.platform))
processActionNewPlatform(item, pf) ==
    IF Portfolio_hasPlatform(pf, item.platform) THEN Throw(pf, <<>>, "Platform exists")
    ELSE Return([pf EXCEPT !.platforms = MapSet(@, item.platform, NewPlatform)], <<>>)

\* the four processActionNewAsset<Kind> functions share this shape
AddHoldingResult(item, pf, r) ==
    IF r.err # NoErr THEN Throw(pf, <<>>, r.err)
    ELSE Return([pf EXCEPT !.platforms[item.platform] = r.p], <<>>)

processActionNewAssetStock(item, pf) ==
    AddHoldingResult(item, pf,
        Platform_addStockHolding(pf.platforms[item.platform],
            NewStockHolding(item.assetCode, item.friendlyName, item.currency)))

processActionNewAssetBond(item, pf) ==
    AddHoldingResult(item, pf,
        Platform_addBondHolding(pf.platforms[item.platform],
            NewBondHolding(item.assetCode, item.friendlyName, item.currency)))

processActionNewAssetIndexFund(item, pf) ==
    AddHoldingResult(item, pf,
        Platform_addIndexFundHolding(pf.platforms[item.platform],
            NewIndexFundHolding(item.assetCode, item.friendlyName, item.currency)))

processActionNewAssetCash(item, pf) ==
    AddHoldingResult(item, pf,
        Platform_addCashHolding(pf.platforms[item.platform],
            NewCashHolding(item.currency)))

processActionNewAsset(item, pf) ==
    IF ~Portfolio_hasPlatform(pf, item.platform) THEN Throw(pf, <<>>, "Platform does not exist")
    ELSE IF item.assetType = "Stock" THEN processActionNewAssetStock(item, pf)
    ELSE IF item.assetType = "IndexFund" THEN processActionNewAssetIndexFund(item, pf)
    ELSE IF item.assetType = "Cash" THEN processActionNewAssetCash(item, pf)
    ELSE IF item.assetType = "Bond" THEN processActionNewAssetBond(item, pf)
    ELSE Throw(pf, <<>>, "Processing of NewAsset for asset type is not implemented")

\* ------------------------------------------------------------ parsing
ALL_POSSIBLE_JSON_FIELDS ==
    {"date", "action", "platform", "assetType", "assetCode", "totalShares",
     "currency", "unitValue", "totalValue", "feeValue", "grossValue", "netValue",
     "taxValue", "fromPlatform", "toPlatform", "fromCurrency", "toCurrency",
     "fromValue", "toValue", "fromTotalShares", "toTotalShares",
     "fromToCoefficient", "friendlyName", "notes"}

\* the keys of the ACTIONS table; those mapped to true need an asset type
Actions ==
    {"Check", "NewPlatform", "NewAsset", "Buy", "Deposit", "Dividend",
     "CurrencyConversion", "PublicToPrivateShareConversion", "Split", "Transfer",
     "UnspecificAccountingIncomeAction", "Sell", "Interest"}

ActionNeedsAssetType(action) == action # "NewPlatform"

ASSET_TYPES == {"Cash", "Stock", "Bond", "IndexFund"}

CommonFields == {"date", "notes", "action", "platform", "assetType"}

\* the field set of an (action, assetType) pair; {} stands for undefined
getInputsByActionAndAsset(action, assetType) ==
    CASE action = "PublicToPrivateShareConversion" /\ assetType = "Stock" ->
             CommonFields \cup {"assetCode", "currency", "feeValue"}
      [] action = "UnspecificAccountingIncomeAction" /\ assetType = "Stock" ->
             CommonFields \cup {"assetCode", "currency", "totalValue"}
      [] action = "Transfer" /\ assetType = "Cash" ->
             {"date", "notes", "action", "fromPlatform", "toPlatform", "assetType",
              "currency", "totalValue", "feeValue"}
      [] action = "CurrencyConversion" /\ assetType = "Cash" ->
             CommonFields \cup {"fromCurrency", "toCurrency", "fromValue", "toValue",
                                "fromToCoefficient", "feeValue"}
      [] action = "Dividend" /\ assetType = "Stock" ->
             CommonFields \cup {"assetCode", "currency", "grossValue", "netValue", "taxValue"}
      [] action = "Interest" /\ assetType = "Bond" ->
             CommonFields \cup {"assetCode", "currency", "grossValue", "netValue", "taxValue"}
      [] action = "Interest" /\ assetType = "Cash" ->
             CommonFields \cup {"currency", "grossValue", "netValue", "taxValue"}
      [] action = "Buy" /\ assetType \in {"Stock", "Bond"} ->
             CommonFields \cup {"assetCode", "currency", "totalShares", "unitValue",
                                "totalValue", "feeValue"}
      [] action = "Buy" /\ assetType = "IndexFund" ->
             CommonFields \cup {"assetCode", "currency", "totalShares", "unitValue",
                                "totalValue"}
      [] action = "Sell" /\ assetType = "Stock" ->
             CommonFields \cup {"assetCode", "currency", "totalShares", "unitValue",
                                "totalValue", "feeValue"}
      [] action = "Sell" /\ assetType = "IndexFund" ->
             CommonFields \cup {"assetCode", "currency", "totalShares", "unitValue",
                                "totalValue"}
      [] action = "Deposit" /\ assetType = "Cash" ->
             CommonFields \cup {"currency", "totalValue"}
      [] action = "Check" /\ assetType = "Cash" ->
             CommonFields \cup {"currency", "totalValue"}
      [] action = "Check" /\ assetType \in {"Stock", "Bond", "IndexFund"} ->
             CommonFields \cup {"assetCode", "totalShares"}
      [] action = "NewPlatform" -> {"date", "notes", "action", "platform"}
      [] action = "NewAsset" /\ assetType \in {"Stock", "IndexFund", "Bond"} ->
             CommonFields \cup {"assetCode", "currency", "friendlyName"}
      [] action = "NewAsset" /\ assetType = "Cash" ->
             CommonFields \cup {"currency"}
      [] action = "Split" /\ assetType = "Stock" ->
             CommonFields \cup {"assetCode", "currency", "fromTotalShares",
                                "toTotalShares", "fromToCoefficient"}
      [] OTHER -> {}

optionalFields == {"notes", "feeValue"}

\* a parser without the test for properties outside the pair's field set
parseActionInputsByNames_lenient(raw) ==
    LET keys == DOMAIN raw
        assetType == IF "assetType" \in keys THEN raw.assetType ELSE "undefined"
        expectedFields ==
            IF "action" \in keys THEN getInputsByActionAndAsset(raw.action, assetType)
            ELSE {}
        Fail(msg) == [err |-> msg, item |-> raw]
    IN
    IF ~(keys \subseteq ALL_POSSIBLE_JSON_FIELDS) THEN Fail("Unhandled property")
    ELSE IF "action" \notin keys THEN Fail("Missing required field action")
    ELSE IF raw.action \notin Actions THEN Fail("Action is not supported")
    ELSE IF ActionNeedsAssetType(raw.action) /\ "assetType" \notin keys
    THEN Fail("Missing required field assetType")
    ELSE IF ActionNeedsAssetType(raw.action) /\ assetType \notin ASSET_TYPES
    THEN Fail("Asset type is not supported")
    ELSE IF expectedFields = {} THEN Fail("Action is not supported for asset type")
    ELSE IF ~((expectedFields \ optionalFields) \subseteq keys)
    THEN Fail("Missing required field")
    ELSE [err |-> NoErr,
          item |-> [f \in keys \cup (expectedFields \cap {"feeValue"}) |->
                        IF f \in keys THEN raw[f] ELSE 0]]

\* Entries are records whose field values already have the type the field
\* validators produce; [err, item]: the failure message, or the parsed
\* inputs (an absent feeValue parses to 0)
parseActionInputsByNames(raw) ==
    LET keys == DOMAIN raw
        assetType == IF "assetType" \in keys THEN raw.assetType ELSE "undefined"
        expectedFields ==
            IF "action" \in keys THEN getInputsByActionAndAsset(raw.action, assetType)
            ELSE {}
        Fail(msg) == [err |-> msg, item |-> raw]
    IN
    IF ~(keys \subseteq ALL_POSSIBLE_JSON_FIELDS) THEN Fail("Unhandled property")
    ELSE IF "action" \notin keys THEN Fail("Missing required field action")
    ELSE IF raw.action \notin Actions THEN Fail("Action is not supported")
    ELSE IF ActionNeedsAssetType(raw.action) /\ "assetType" \notin keys
    THEN Fail("Missing required field assetType")
    ELSE IF ActionNeedsAssetType(raw.action) /\ assetType \notin ASSET_TYPES
    THEN Fail("Asset type is not supported")
    ELSE IF expectedFields = {} THEN Fail("Action is not supported for asset type")
    ELSE IF ~(keys \subseteq expectedFields) THEN Fail("Property is unexpected")
    ELSE IF ~((expectedFields \ optionalFields) \subseteq keys)
    THEN Fail("Missing required field")
    ELSE [err |-> NoErr,
          item |-> [f \in keys \cup (expectedFields \cap {"feeValue"}) |->
                        IF f \in keys THEN raw[f] ELSE 0]]

\* ------------------------------------------------------------ processAction
processAction(raw, pf) ==
    LET parsed == parseActionInputsByNames(raw) IN
    IF parsed.err # NoErr THEN Throw(pf, <<>>, "Problem parsing input")
    ELSE
      LET item == parsed.item
          gate == Portfolio_setSameOrLaterDate(pf, item.date)
          p == gate.pf
      IN
      IF gate.err # NoErr
      THEN Throw(pf, <<>>, "Record not in chronological order with previous record")
      ELSE
        CASE item.action = "NewPlatform" -> processActionNewPlatform(item, p)
          [] item.action = "NewAsset" -> processActionNewAsset(item, p)
          [] item.action = "Check" -> processActionCheck(item, p)
          [] item.action = "Deposit" -> processActionDeposit(item, p)
          [] item.action = "Buy" -> processActionBuy(item, p)
          [] item.action = "Sell" -> processActionSell(item, p)
          [] item.action = "Dividend" -> processActionDividend(item, p)
          [] item.action = "CurrencyConversion" -> processActionCurrencyConversion(item, p)
          [] item.action = "Transfer" -> processActionTransfer(item, p)
          [] item.action = "UnspecificAccountingIncomeAction" ->
                 processActionUnspecificAccountingIncomeAction(item, p)
          [] item.action = "PublicToPrivateShareConversion" ->
                 processActionPublicToPrivateShareConversion(item, p)
          [] item.action = "Interest" -> processActionInterest(item, p)
          [] item.action = "Split" -> processActionStockSplit(item, p)
          [] OTHER -> Throw(p, <<>>, "Processing is not implemented")

\* ------------------------------------------------------ ledger entries
AssetKinds == {"Stock", "Bond", "IndexFund"}

E_NewPlatform(d, p) == [date |-> d, action |-> "NewPlatform", platform |-> p]

E_NewAssetCash(d, p, c) ==
    [date |-> d, action |-> "NewAsset", platform |-> p, assetType |-> "Cash",
     currency |-> c]

E_NewAsset(d, p, t, code, c, name) ==
    [date |-> d, action |-> "NewAsset", platform |-> p, assetType |-> t,
     assetCode |-> code, currency |-> c, friendlyName |-> name]

E_Deposit(d, p, c, v) ==
    [date |-> d, action |-> "Deposit", platform |-> p, assetType |-> "Cash",
     currency |-> c, totalValue |-> v]

E_CheckCash(d, p, c, v) ==
    [date |-> d, action |-> "Check", platform |-> p, assetType |-> "Cash",
     currency |-> c, totalValue |-> v]

E_CheckAsset(d, p, t, code, n) ==
    [date |-> d, action |-> "Check", platform |-> p, assetType |-> t,
     assetCode |-> code, totalShares |-> n]

E_Transfer(d, from, to, c, v, fee) ==
    [date |-> d, action |-> "Transfer", fromPlatform |-> from, toPlatform |-> to,
     assetType |-> "Cash", currency |-> c, totalValue |-> v, feeValue |-> fee]

E_CurrencyConversion(d, p, from, to, fv, tv, k, fee) ==
    [date |-> d, action |-> "CurrencyConversion", platform |-> p,
     assetType |-> "Cash", fromCurrency |-> from, toCurrency |-> to,
     fromValue |-> fv, toValue |-> tv, fromToCoefficient |-> k, feeValue |-> fee]

E_Income(d, action, p, t, code, c, gross, net, tax) ==
    [date |-> d, action |-> action, platform |-> p, assetType |-> t,
     assetCode |-> code, currency |-> c, grossValue |-> gross, netValue |-> net,
     taxValue |-> tax]

E_InterestCash(d, p, c, gross, net, tax) ==
    [date |-> d, action |-> "Interest", platform |-> p, assetType |-> "Cash",
     currency |-> c, grossValue |-> gross, netValue |-> net, taxValue |-> tax]

E_TradeWithFee(d, action, p, t, code, c, n, u, v, fee) ==
    [date |-> d, action |-> action, platform |-> p, assetType |-> t,
     assetCode |-> code, currency |-> c, totalShares |-> n, unitValue |-> u,
     totalValue |-> v, feeValue |-> fee]

E_Trade(d, action, p, t, code, c, n, u, v) ==
    [date |-> d, action |-> action, platform |-> p, assetType |-> t,
     assetCode |-> code, currency |-> c, totalShares |-> n, unitValue |-> u,
     totalValue |-> v]

E_StockFee(d, p, code, c, fee) ==
    [date |-> d, action |-> "PublicToPrivateShareConversion", platform |-> p,
     assetType |-> "Stock", assetCode |-> code, currency |-> c, feeValue |-> fee]

E_StockIncome(d, p, code, c, v) ==
    [date |-> d, action |-> "UnspecificAccountingIncomeAction", platform |-> p,
     assetType |-> "Stock", assetCode |-> code, currency |-> c, totalValue |-> v]

E_Split(d, p, code, c, from, to, k) ==
    [date |-> d, action |-> "Split", platform |-> p, assetType |-> "Stock",
     assetCode |-> code, currency |-> c, fromTotalShares |-> from,
     toTotalShares |-> to, fromToCoefficient |-> k]

\* entries the parser rejects: an unknown property, a missing required field,
\* an (action, asset type) pair without a field set, an unknown action, a
\* known property outside the pair's field set
MalformedEntries(d) ==
    { [date |-> d, action |-> "NewPlatform", platform |-> "A", foo |-> 1],
      [date |-> d, action |-> "Deposit", platform |-> "A", assetType |-> "Cash",
       currency |-> "EUR"],
      E_Trade(d, "Sell", "A", "Bond", "X", "EUR", 1, 1, 1),
      [date |-> d, action |-> "Withdraw", platform |-> "A"],
      [date |-> d, action |-> "Deposit", platform |-> "A", assetType |-> "Cash",
       currency |-> "EUR", totalValue |-> 1, feeValue |-> 0] }

\* platforms and holdings being declared, with clashing codes and names
AdminEntries(d) ==
    { E_NewPlatform(d, "A"),
      E_NewAssetCash(d, "A", "EUR"),
      E_NewAssetCash(d, "B", "EUR"),
      E_NewAsset(d, "A", "Stock", "EUR", "EUR", "n2"),
      E_NewAsset(d, "A", "Bond", "EUR", "EUR", "n1"),
      E_Deposit(d, "A", "EUR", 1) }
    \cup { E_NewAsset(d, "A", t, "X", "EUR", "n1") : t \in AssetKinds }
    \cup MalformedEntries(d)

\* platform B has no USD holding
CashEntries(d) ==
    { E_Deposit(d, "A", "EUR", 1),
      E_Deposit(d, "A", "EUR", 0),
      E_Deposit(d, "B", "USD", 1),
      E_CheckCash(d, "A", "EUR", 1),
      E_CheckCash(d, "A", "EUR", 0),
      E_Transfer(d, "A", "B", "EUR", 1, 0),
      E_Transfer(d, "A", "B", "EUR", 1, 1),
      E_Transfer(d, "A", "B", "USD", 1, 0),
      E_Transfer(d, "A", "B", "EUR", 0, 0),
      E_Transfer(d, "B", "A", "EUR", 1, 0),
      E_Transfer(d, "B", "A", "USD", 1, 0),
      E_Transfer(d, "A", "A", "EUR", 1, 1),
      E_Transfer(d, "A", "C", "EUR", 1, 0),
      E_Transfer(d, "C", "A", "EUR", 1, 0),
      E_InterestCash(d, "A", "EUR", 1, 1, 0),
      E_InterestCash(d, "A", "EUR", 1, 1, 1) }

ConversionEntries(d) ==
    { E_Deposit(d, "A", "EUR", 1),
      E_CurrencyConversion(d, "A", "EUR", "USD", 1, 1, 1, 0),
      E_CurrencyConversion(d, "A", "EUR", "USD", 1, 1, 2, 0),
      E_CurrencyConversion(d, "A", "EUR", "USD", 1, 1, 1, 1),
      E_CurrencyConversion(d, "A", "USD", "EUR", 1, 1, 1, 0),
      E_CurrencyConversion(d, "A", "EUR", "USD", 0, 1, 1, 0),
      E_CurrencyConversion(d, "A", "EUR", "USD", 1, 1, 2, -1),
      E_CurrencyConversion(d, "B", "EUR", "USD", 1, 1, 1, 0),
      E_CurrencyConversion(d, "B", "EUR", "USD", 1, 1, 2, 0) }

StockEntries(d) ==
    { E_Deposit(d, "A", "EUR", 1),
      E_TradeWithFee(d, "Buy", "A", "Stock", "X", "EUR", 1, 1, 1, 0),
      E_TradeWithFee(d, "Buy", "A", "Stock", "X", "EUR", 1, 1, 1, 1),
      E_Trade(d, "Buy", "A", "Stock", "X", "EUR", 1, 1, 1),
      E_TradeWithFee(d, "Buy", "A", "Stock", "X", "EUR", 1, 0, 1, 0),
      E_TradeWithFee(d, "Buy", "A", "Stock", "X", "EUR", 0, 1, 1, 0),
      E_TradeWithFee(d, "Buy", "A", "Stock", "X", "EUR", 1, 1, 0, 0),
      E_TradeWithFee(d, "Buy", "A", "Stock", "X", "EUR", 1, 1, -1, 0),
      E_TradeWithFee(d, "Buy", "A", "Stock", "X", "USD", 1, 1, 1, 0),
      E_TradeWithFee(d, "Sell", "A", "Stock", "X", "EUR", 1, 1, 1, 0),
      E_TradeWithFee(d, "Sell", "A", "Stock", "X", "EUR", 1, 2, 2, 1),
      E_TradeWithFee(d, "Sell", "A", "Stock", "X", "EUR", 1, 1, 1, 1),
      E_TradeWithFee(d, "Sell", "A", "Stock", "X", "EUR", 1, 0, 1, 0),
      E_Income(d, "Dividend", "A", "Stock", "X", "EUR", 1, 1, 0),
      E_Income(d, "Dividend", "A", "Stock", "X", "EUR", 1, 1, 1),
      E_Split(d, "A", "X", "EUR", 1, 2, 2),
      E_Split(d, "A", "X", "EUR", 1, 2, 1),
      E_StockFee(d, "A", "X", "EUR", 1),
      E_StockFee(d, "A", "X", "EUR", 0),
      E_StockIncome(d, "A", "X", "EUR", 1),
      E_CheckAsset(d, "A", "Stock", "X", 1) }

BondEntries(d) ==
    { E_Deposit(d, "A", "EUR", 1),
      E_TradeWithFee(d, "Buy", "A", "Bond", "X", "EUR", 1, 1, 1, 0),
      E_TradeWithFee(d, "Buy", "A", "Bond", "X", "EUR", 1, 0, 1, 0),
      E_TradeWithFee(d, "Buy", "A", "Bond", "X", "EUR", 0, 1, 1, 0),
      E_TradeWithFee(d, "Buy", "A", "Bond", "X", "EUR", 1, 1, 0, -1),
      E_TradeWithFee(d, "Buy", "A", "Bond", "X", "EUR", 1, 1, 2, 0),
      E_Income(d, "Interest", "A", "Bond", "X", "EUR", 1, 1, 0),
      E_Income(d, "Interest", "A", "Bond", "X", "EUR", 1, 1, 1),
      E_CheckAsset(d, "A", "Bond", "X", 1) }

IndexFundEntries(d) ==
    { E_Deposit(d, "A", "EUR", 1),
      E_Trade(d, "Buy", "A", "IndexFund", "X", "EUR", 1, 1, 1),
      E_Trade(d, "Buy", "A", "IndexFund", "X", "EUR", 1, 0, 0),
      E_Trade(d, "Buy", "A", "IndexFund", "X", "EUR", 0, 1, 1),
      E_Trade(d, "Buy", "A", "IndexFund", "X", "EUR", 1, 1, 2),
      E_Trade(d, "Sell", "A", "IndexFund", "X", "EUR", 1, 1, 1),
      E_Trade(d, "Sell", "A", "IndexFund", "X", "EUR", 0, 1, 1),
      E_CheckAsset(d, "A", "IndexFund", "X", 1),
      E_CheckAsset(d, "A", "IndexFund", "X", 0) }

\* a deposit of 100.00, with or without notes, and checks against it
CheckEntries(d) ==
    { E_Deposit(d, "B", "USD", 100),
      [date |-> d, action |-> "Deposit", platform |-> "B", assetType |-> "Cash",
       currency |-> "USD", totalValue |-> 100, notes |-> "salary"],
      E_CheckCash(d, "B", "USD", 100),
      E_CheckCash(d, "B", "USD", 1) }

\* A ledger is a scenario's set-up prefix followed by up to MaxTail entries
\* of the scenario's family, with any dates.
CashSetup ==
    << E_NewPlatform(1, "A"), E_NewPlatform(1, "B"), E_NewAssetCash(1, "A", "EUR"),
       E_NewAssetCash(1, "A", "USD"), E_NewAssetCash(1, "B", "EUR") >>

CheckSetup == << E_NewPlatform(1, "B"), E_NewAssetCash(1, "B", "USD") >>

AssetSetup(t) ==
    << E_NewPlatform(1, "A"), E_NewAssetCash(1, "A", "EUR"),
       E_NewAsset(1, "A", t, "X", "EUR", "n1") >>

Scenarios ==
    { [setup |-> <<>>, family |-> "admin"],
      [setup |-> << E_NewPlatform(1, "A") >>, family |-> "admin"],
      [setup |-> CheckSetup, family |-> "check"],
      [setup |-> CashSetup, family |-> "cash"],
      [setup |-> CashSetup, family |-> "conversion"],
      [setup |-> AssetSetup("Stock"), family |-> "stock"],
      [setup |-> AssetSetup("Bond"), family |-> "bond"],
      [setup |-> AssetSetup("IndexFund"), family |-> "indexFund"] }

FamilyEntries(family, d) ==
    CASE family = "admin" -> AdminEntries(d)
      [] family = "check" -> CheckEntries(d)
      [] family = "cash" -> CashEntries(d)
      [] family = "conversion" -> ConversionEntries(d)
      [] family = "stock" -> StockEntries(d)
      [] family = "bond" -> BondEntries(d)
      [] family = "indexFund" -> IndexFundEntries(d)

\* ------------------------------------------------------------ finalize
\* price: the result of getAssetPrice, <<>> for null, else <<[price, date]>>
PriceLookups ==
    { <<>>, <<[price |-> 1, date |-> 0]>>, <<[price |-> 1, date |-> MaxDate + 1]>> }

AssetHistoryError(h) ==
    IF validateHistoryChronological(h.history) # NoErr
    THEN validateHistoryChronological(h.history)
    ELSE IF validateHistoryFieldSum(h.history, "valueChange", h.shares) # NoErr
    THEN validateHistoryFieldSum(h.history, "valueChange", h.shares)
    ELSE validateHistoryFieldSum(h.history, "cashChange", h.totalCash)

\* the unit value and date after the price lookup (stock.js 159-166)
FetchedLatest(h, price) ==
    IF h.shares > 0 /\ price # <<>>
       /\ price[1].date > h.latestUnitValueAndDate[1].date
    THEN <<[value |-> price[1].price, date |-> price[1].date]>>
    ELSE h.latestUnitValueAndDate

\* "" when validateAndFinalize completes, else the message it throws
StockHolding_validateAndFinalize(h, price) ==
    IF AssetHistoryError(h) # NoErr THEN AssetHistoryError(h)
    ELSE IF ~StockCashIdentity(h) THEN "Invalid total cash"
    ELSE IF h.shares > 0 /\ price # <<>> /\ h.latestUnitValueAndDate = <<>>
    THEN "TypeError: latestUnitValueAndDate is null"
    ELSE IF Len(h.history) = 0 THEN NoErr
    ELSE IF FetchedLatest(h, price) = <<>>
    THEN "Latest unit value not set despite having history"
    ELSE IF FetchedLatest(h, price)[1].value = 0 THEN "latestUnitValue: Zero"
    ELSE NoErr

IndexFundHolding_validateAndFinalize(h, price) ==
    IF AssetHistoryError(h) # NoErr THEN AssetHistoryError(h)
    ELSE IF ~IndexFundCashIdentity(h) THEN "Invalid total cash"
    ELSE IF h.shares > 0 /\ price # <<>> /\ h.latestUnitValueAndDate = <<>>
    THEN "TypeError: latestUnitValueAndDate is null"
    ELSE IF Len(h.history) = 0 THEN NoErr
    ELSE IF FetchedLatest(h, price) = <<>>
    THEN "Latest unit value not set despite having history"
    ELSE IF FetchedLatest(h, price)[1].value = 0 THEN "latestUnitValue: Zero"
    ELSE NoErr

\* bond.js 111 stores the looked-up {price, date} object itself, which has
\* no value property
BondHolding_validateAndFinalize(h, price) ==
    IF AssetHistoryError(h) # NoErr THEN AssetHistoryError(h)
    ELSE IF ~BondCashIdentity(h) THEN "Buy cash + interest cash != total cash"
    ELSE IF h.shares > 0 /\ price # <<>> /\ h.latestUnitValueAndDate = <<>>
    THEN "TypeError: latestUnitValueAndDate is null"
    ELSE IF h.shares > 0 /\ price # <<>>
            /\ price[1].date > h.latestUnitValueAndDate[1].date
    THEN "latestUnitValue: Not a Decimal"
    ELSE IF Len(h.history) = 0 THEN NoErr
    ELSE IF h.latestUnitValueAndDate = <<>>
    THEN "Latest unit value not set despite having history"
    ELSE IF h.latestUnitValueAndDate[1].value = 0 THEN "latestUnitValue: Zero"
    ELSE NoErr

\* the holding as validateAndFinalize leaves it: the looked-up price replaces
\* the latest unit value when the checks before the lookup pass and the
\* lookup is newer
StockHolding_finalized(h, price) ==
    IF AssetHistoryError(h) = NoErr /\ StockCashIdentity(h)
       /\ h.shares > 0 /\ price # <<>> /\ h.latestUnitValueAndDate # <<>>
    THEN [h EXCEPT !.latestUnitValueAndDate = FetchedLatest(h, price)]
    ELSE h

IndexFundHolding_finalized(h, price) ==
    IF AssetHistoryError(h) = NoErr /\ IndexFundCashIdentity(h)
       /\ h.shares > 0 /\ price # <<>> /\ h.latestUnitValueAndDate # <<>>
    THEN [h EXCEPT !.latestUnitValueAndDate = FetchedLatest(h, price)]
    ELSE h

BondHolding_finalized(h, price) ==
    IF AssetHistoryError(h) = NoErr /\ BondCashIdentity(h)
       /\ h.shares > 0 /\ price # <<>> /\ h.latestUnitValueAndDate # <<>>
       /\ price[1].date > h.latestUnitValueAndDate[1].date
    THEN [h EXCEPT !.latestUnitValueAndDate = price]
    ELSE h

\* the messages thrown by the holdings of one platform
Platform_validateAndFinalize(platform, price) ==
    ({ CashHolding_validateAndFinalize(platform.cashHoldings[c]) :
         c \in DOMAIN platform.cashHoldings }
     \cup { StockHolding_validateAndFinalize(platform.stockHoldings[c], price) :
              c \in DOMAIN platform.stockHoldings }
     \cup { IndexFundHolding_validateAndFinalize(platform.indexFundHoldings[c], price) :
              c \in DOMAIN platform.indexFundHoldings }
     \cup { BondHolding_validateAndFinalize(platform.bondHoldings[c], price) :
              c \in DOMAIN platform.bondHoldings })
    \ {NoErr}

Platform_finalized(platform, price) ==
    [platform EXCEPT
       !.stockHoldings =
           [c \in DOMAIN @ |-> StockHolding_finalized(@[c], price)],
       !.indexFundHoldings =
           [c \in DOMAIN @ |-> IndexFundHolding_finalized(@[c], price)],
       !.bondHoldings =
           [c \in DOMAIN @ |-> BondHolding_finalized(@[c], price)]]

\* Promise.all over the platforms: rejects when any holding's finalize throws
Portfolio_validateAndFinalize(pf, price) ==
    UNION { Platform_validateAndFinalize(pf.platforms[p], price) :
              p \in DOMAIN pf.platforms }

Portfolio_finalized(pf, price) ==
    [pf EXCEPT !.platforms =
         [p \in DOMAIN @ |-> Platform_finalized(@[p], price)]]

\* ------------------------------------------------------ processActivityList
VARIABLES
    scenario,               \* the family of ledgers this run draws from
    ledgerLen,              \* activityFileJson.length
    pc,                     \* "loop", "afterLoop", "returned", "threw"
    i,                      \* index of the next entry of the for loop
    portfolioObj,
    activityErrorMap,
    criticalErrorOccurred,
    before,                 \* portfolioObj when the last entry began
    lastItem,               \* the last entry processed
    lastWarnings,           \* the handler's warnings array when it ended
    processed,              \* indices handed to processAction, in order
    finalizeCount,          \* calls of portfolioObj.validateAndFinalize
    finalizeErrors,         \* what those calls threw
    args,                   \* the arguments of a direct call of one function
    result                  \* what that call returned or threw, <<>> before it

vars == <<scenario, ledgerLen, pc, i, portfolioObj, activityErrorMap,
          criticalErrorOccurred, before, lastItem, lastWarnings, processed,
          finalizeCount, finalizeErrors, args, result>>

Init ==
    /\ scenario \in Scenarios
    /\ ledgerLen \in Len(scenario.setup)..(Len(scenario.setup) + MaxTail)
    /\ ledgerLen >= 1
    /\ pc = "loop"
    /\ i = 0
    /\ portfolioObj = NewPortfolio
    /\ activityErrorMap = EmptyMap
    /\ criticalErrorOccurred = FALSE
    /\ before = NewPortfolio
    /\ lastItem = [action |-> "none"]
    /\ lastWarnings = <<>>
    /\ processed = <<>>
    /\ finalizeCount = 0
    /\ finalizeErrors = {}
    /\ args = <<>>
    /\ result = <<>>

\* the entry at index k of the ledger
EntriesAt(k) ==
    IF k < Len(scenario.setup) THEN {scenario.setup[k + 1]}
    ELSE UNION { FamilyEntries(scenario.family, d) : d \in Dates }

WarningMessage(warnings) == [critical |-> FALSE, text |-> "", warnings |-> warnings]

\* a catch branch that also kept the handler's warnings
CriticalMessage_keepWarnings(ctx) ==
    [critical |-> TRUE, text |-> ctx.err, warnings |-> ctx.warnings]

\* the catch branch: the map gets the Error's message
CriticalMessage(ctx) == [critical |-> TRUE, text |-> ctx.err, warnings |-> <<>>]

\* the loop without its break
NextPc_noBreak(threw, next, len) ==
    IF next = len THEN "afterLoop" ELSE "loop"

\* where the for loop goes after an entry: break on a throw, end after the last
NextPc(threw, next, len) ==
    IF threw \/ next = len THEN "afterLoop" ELSE "loop"

\* the finalize pass run unconditionally
ShouldFinalize_always(critical) == TRUE

ShouldFinalize(critical) == ~critical

ProcessEntry ==
    /\ pc = "loop"
    /\ i < ledgerLen
    /\ \E item \in EntriesAt(i) :
         LET ctx == processAction(item, portfolioObj) IN
         /\ portfolioObj' = ctx.pf
         /\ before' = portfolioObj
         /\ lastItem' = item
         /\ lastWarnings' = ctx.warnings
         /\ activityErrorMap' =
                IF ctx.err # NoErr
                THEN MapSet(activityErrorMap, i, CriticalMessage(ctx))
                ELSE IF Len(ctx.warnings) > 0
                THEN MapSet(activityErrorMap, i, WarningMessage(ctx.warnings))
                ELSE activityErrorMap
         /\ criticalErrorOccurred' = (criticalErrorOccurred \/ ctx.err # NoErr)
         /\ pc' = NextPc(ctx.err # NoErr, i + 1, ledgerLen)
    /\ processed' = Append(processed, i)
    /\ i' = i + 1
    /\ UNCHANGED <<scenario, ledgerLen, finalizeCount, finalizeErrors, args, result>>

\* await portfolioObj.validateAndFinalize(), then return, or reject
Finalize ==
    /\ pc = "afterLoop"
    /\ ShouldFinalize(criticalErrorOccurred)
    /\ \E price \in PriceLookups :
         /\ finalizeErrors' = Portfolio_validateAndFinalize(portfolioObj, price)
         /\ portfolioObj' = Portfolio_finalized(portfolioObj, price)
         /\ pc' = IF finalizeErrors' = {} THEN "returned" ELSE "threw"
    /\ finalizeCount' = finalizeCount + 1
    /\ UNCHANGED <<scenario, ledgerLen, i, activityErrorMap,
                   criticalErrorOccurred, before, lastItem, lastWarnings, processed,
                   args, result>>

\* the finalize pass is skipped and the triple returned
SkipFinalize ==
    /\ pc = "afterLoop"
    /\ ~ShouldFinalize(criticalErrorOccurred)
    /\ pc' = "returned"
    /\ UNCHANGED <<scenario, ledgerLen, i, portfolioObj, activityErrorMap,
                   criticalErrorOccurred, before, lastItem, lastWarnings, processed,
                   finalizeCount, finalizeErrors, args, result>>

Next == ProcessEntry \/ Finalize \/ SkipFinalize

Spec == Init /\ [][Next]_vars

\* ------------------------------------------------- direct calls of a function
\* The specifications below call one function directly: Init draws the
\* arguments, one action makes the call. processActivityList does not run.
Parked ==
    /\ scenario = [family |-> "none", setup |-> <<>>]
    /\ ledgerLen = 0
    /\ pc = "returned"
    /\ i = 0
    /\ portfolioObj = NewPortfolio
    /\ activityErrorMap = EmptyMap
    /\ criticalErrorOccurred = FALSE
    /\ before = NewPortfolio
    /\ lastItem = [action |-> "none"]
    /\ lastWarnings = <<>>
    /\ processed = <<>>
    /\ finalizeCount = 0
    /\ finalizeErrors = {}

ledgerVars == <<scenario, ledgerLen, pc, i, portfolioObj, activityErrorMap,
                criticalErrorOccurred, before, lastItem, lastWarnings, processed,
                finalizeCount, finalizeErrors>>

\* the call was not made yet
Pending == result = <<>>

\* ---------------------------------------------- updateShares and updateValue
MaxDelta == 1

Deltas == (-MaxDelta)..MaxDelta

UnitValues == {<<>>} \cup { <<u>> : u \in Deltas }

\* each update method is called on a new holding and on the same holding
\* after one purchase or deposit
UpdateCalls ==
    LET stock == NewStockHolding("X", "n1", "EUR")
        bond == NewBondHolding("X", "n1", "EUR")
        fund == NewIndexFundHolding("X", "n1", "EUR")
        cash == NewCashHolding("EUR")
    IN
    [fn : {"StockHolding.updateShares"},
     h : {stock, StockHolding_updateShares(stock, 1, -1, 1, FALSE, "BUY", FALSE, <<1>>).h},
     diff : Deltas, acquiredCash : Deltas, zeroDiff : BOOLEAN,
     type : StockChangeType \cup {"STOCK_SPLIT"}, zeroCash : BOOLEAN,
     unitValue : UnitValues]
    \cup
    [fn : {"BondHolding.updateShares"},
     h : {bond, BondHolding_updateShares(bond, 1, -1, 1, FALSE, "BUY", <<1>>).h},
     diff : Deltas, acquiredCash : Deltas, zeroDiff : BOOLEAN, type : BondChangeType,
     zeroCash : {FALSE}, unitValue : UnitValues]
    \cup
    [fn : {"IndexFundHolding.updateShares"},
     h : {fund, IndexFundHolding_updateShares(fund, 1, -1, 1, FALSE, "BUY", <<1>>).h},
     diff : Deltas, acquiredCash : Deltas, zeroDiff : BOOLEAN,
     type : IndexFundChangeType, zeroCash : {FALSE}, unitValue : UnitValues]
    \cup
    [fn : {"CashHolding.updateValue"},
     h : {cash, CashHolding_updateValue(cash, 1, 1, "CASH_DEPOSIT").h},
     diff : Deltas, acquiredCash : {0}, zeroDiff : {FALSE},
     type : {"CASH_DEPOSIT", "STOCK_BUY", "CASH_INTEREST"}, zeroCash : {FALSE},
     unitValue : {<<>>}]

CallStockUpdateShares ==
    /\ Pending
    /\ args.fn = "StockHolding.updateShares"
    /\ result' = StockHolding_updateShares(args.h, args.diff, args.acquiredCash, 2,
                     args.zeroDiff, args.type, args.zeroCash, args.unitValue)
    /\ UNCHANGED <<ledgerVars, args>>

CallBondUpdateShares ==
    /\ Pending
    /\ args.fn = "BondHolding.updateShares"
    /\ result' = BondHolding_updateShares(args.h, args.diff, args.acquiredCash, 2,
                     args.zeroDiff, args.type, args.unitValue)
    /\ UNCHANGED <<ledgerVars, args>>

CallIndexFundUpdateShares ==
    /\ Pending
    /\ args.fn = "IndexFundHolding.updateShares"
    /\ result' = IndexFundHolding_updateShares(args.h, args.diff, args.acquiredCash, 2,
                     args.zeroDiff, args.type, args.unitValue)
    /\ UNCHANGED <<ledgerVars, args>>

CallCashUpdateValue ==
    /\ Pending
    /\ args.fn = "CashHolding.updateValue"
    /\ result' = CashHolding_updateValue(args.h, args.diff, 2, args.type)
    /\ UNCHANGED <<ledgerVars, args>>

\* ----------------------------------------------------------------- VRes
MaxWarnings == 1

\* a JavaScript value: undefined, a string or a number
Undefined == [kind |-> "undefined", v |-> ""]

VResValues == {Undefined, [kind |-> "string", v |-> "Zero"], [kind |-> "number", v |-> "1"]}

WarningLists ==
    UNION { [1..n -> {"w1", "w2"}] : n \in 0..MaxWarnings }

\* new VRes(value, isFailure, warnings)
VRes_new(value, isFailure, warnings) ==
    IF value.kind # "string" \/ ~isFailure
    THEN [warnings |-> warnings, message |-> Undefined, value |-> value,
          isFailure |-> FALSE]
    ELSE [warnings |-> warnings, message |-> value, value |-> Undefined,
          isFailure |-> TRUE]

VResObjects ==
    { VRes_new(v, f, w) : v \in VResValues, f \in BOOLEAN, w \in WarningLists }

\* what a call ends in: a return value, or an Error with its message parts
ReturnValue(v) == [threw |-> FALSE, value |-> v, error |-> <<>>]

ThrowError(parts) == [threw |-> TRUE, value |-> Undefined, error |-> parts]

\* getOrThrow without the throw on a success that has warnings
VRes_getOrThrow_warningsDropped(this, prefix, getWithWarnings) ==
    IF this.isFailure
    THEN IF prefix # Undefined
         THEN IF prefix.kind # "string" THEN ThrowError(<<"Prefix must be a string">>)
              ELSE ThrowError(<<prefix.v, ": ", this.message.v>>)
         ELSE ThrowError(<<this.message.v>>)
    ELSE IF getWithWarnings
    THEN ReturnValue(<<this.value, this.warnings>>)
    ELSE ReturnValue(this.value)

\* an undefined prefix is falsy; so would an empty string be
VRes_getOrThrow(this, prefix, getWithWarnings) ==
    IF this.isFailure
    THEN IF prefix # Undefined
         THEN IF prefix.kind # "string" THEN ThrowError(<<"Prefix must be a string">>)
              ELSE ThrowError(<<prefix.v, ": ", this.message.v>>)
         ELSE ThrowError(<<this.message.v>>)
    ELSE IF getWithWarnings
    THEN ReturnValue(<<this.value, this.warnings>>)
    ELSE IF Len(this.warnings) > 0
    THEN ThrowError(<<"VRes has warnings, but getWithWarnings is false. Use getWithWarnings to retrieve them.">>)
    ELSE ReturnValue(this.value)

\* a callback is what it returns when invoked: a VRes or something else
NotAVRes == [kind |-> "number", v |-> "1"]

\* and() that hands back the callback's result with its own warnings only
VRes_and_warningsLost(this, callback) ==
    IF this.isFailure THEN ReturnValue(this) @@ [invoked |-> 0]
    ELSE IF callback = NotAVRes
    THEN ThrowError(<<"Callback must return a VRes">>) @@ [invoked |-> 1]
    ELSE ReturnValue(callback) @@ [invoked |-> 1]

\* invoked counts the invocations of the callback
VRes_and(this, callback) ==
    IF this.isFailure THEN ReturnValue(this) @@ [invoked |-> 0]
    ELSE IF callback = NotAVRes
    THEN ThrowError(<<"Callback must return a VRes">>) @@ [invoked |-> 1]
    ELSE ReturnValue([callback EXCEPT !.warnings = this.warnings \o callback.warnings])
             @@ [invoked |-> 1]

VResCalls ==
    [fn : {"VRes.getOrThrow"}, this : VResObjects,
     prefix : {Undefined, [kind |-> "string", v |-> "diff"], [kind |-> "number", v |-> "1"]},
     getWithWarnings : BOOLEAN]
    \cup
    [fn : {"VRes.and"}, this : VResObjects, callback : VResObjects \cup {NotAVRes}]

CallGetOrThrow ==
    /\ Pending
    /\ args.fn = "VRes.getOrThrow"
    /\ result' = VRes_getOrThrow(args.this, args.prefix, args.getWithWarnings)
    /\ UNCHANGED <<ledgerVars, args>>

CallAnd ==
    /\ Pending
    /\ args.fn = "VRes.and"
    /\ result' = VRes_and(args.this, args.callback)
    /\ UNCHANGED <<ledgerVars, args>>

\* ------------------------------------------------------------ root solver
\* Numbers are floating-point numbers of Precision significant bits, held as
\* integers in units of the smallest one: every sum, difference and quotient
\* is rounded to the nearest representable number, ties to the even
\* significand, as IEEE 754 arithmetic does with 53 bits.
Precision == 3

MaxScan == 3

RECURSIVE Pow2(_)
Pow2(k) == IF k = 0 THEN 1 ELSE 2 * Pow2(k - 1)

Abs(y) == IF y < 0 THEN -y ELSE y

\* the exponent of the unit in the last place of a magnitude
RECURSIVE UlpExponent(_)
UlpExponent(a) == IF a < Pow2(Precision) THEN 0 ELSE 1 + UlpExponent(a \div 2)

RoundToPrecision(v) ==
    LET a == Abs(v)
        ulp == Pow2(UlpExponent(a))
        q == a \div ulp
        rem == a % ulp
        up == 2 * rem > ulp \/ (2 * rem = ulp /\ q % 2 = 1)
        rounded == (IF up THEN q + 1 ELSE q) * ulp
    IN IF v < 0 THEN -rounded ELSE rounded

FloatAdd(a, b) == RoundToPrecision(a + b)

FloatSub(a, b) == RoundToPrecision(a - b)

\* a / n for a positive integer n
FloatDiv(a, n) ==
    LET q == Abs(a) \div n
        rem == Abs(a) % n
        up == 2 * rem > n \/ (2 * rem = n /\ q % 2 = 1)
        quotient == IF up THEN q + 1 ELSE q
    IN RoundToPrecision(IF a < 0 THEN -quotient ELSE quotient)

\* the search range is [-Half, Half]; a scan of 2^MaxScan segments has
\* segments of 14 units
Half == 7 * Pow2(MaxScan)

\* twice the roots of the functions handed to the solver: on the points of
\* the finest scan, one half unit beside them and in the middle between
\* them, inside the range and just outside it
SolverRoots ==
    { 28 * k + o : k \in (-Pow2(MaxScan - 1) - 1)..(Pow2(MaxScan - 1) + 1),
                   o \in {-1, 0, 1, 15} }

\* lines, parabolas with two roots, and constants
SolverFunctions ==
    [kind : {"line"}, r : SolverRoots, c : {-1, 1}]
    \cup [kind : {"parabola"}, r : SolverRoots, c : {1, 14}]
    \cup [kind : {"constant"}, r : {0}, c : {-1, 0, 1}]

\* a growth rate is x / RateUnit: the search range of xirr is modelled by
\* the rates from -1/2 to 1/2
RateUnit == 2 * Half

RECURSIVE Pow(_, _)
Pow(b, e) == IF e = 0 THEN 1 ELSE b * Pow(b, e - 1)

RECURSIVE MaxDays(_)
MaxDays(transactions) ==
    IF transactions = <<>> THEN 0
    ELSE LET rest == MaxDays(Tail(transactions)) IN
         IF Head(transactions).days > rest THEN Head(transactions).days ELSE rest

\* the balance right after the last transaction, each amount having grown by
\* (1 + growthRate) per day since its day; the value is held in units of
\* RateUnit^-lastDay, in which it is an integer
RECURSIVE simulateNetFutureValue_from(_, _, _)
simulateNetFutureValue_from(transactions, x, lastDay) ==
    IF transactions = <<>> THEN 0
    ELSE Head(transactions).amount
             * Pow(RateUnit + x, lastDay - Head(transactions).days)
             * Pow(RateUnit, Head(transactions).days)
         + simulateNetFutureValue_from(Tail(transactions), x, lastDay)

simulateNetFutureValue(transactions, x) ==
    simulateNetFutureValue_from(transactions, x, MaxDays(transactions))

\* y = fn(x)
Fn(f, x) ==
    CASE f.kind = "line" -> f.c * (2 * x - f.r)
      [] f.kind = "parabola" -> (2 * x - f.r) * (2 * x - f.r - 2 * f.c)
      [] f.kind = "constant" -> f.c
      [] f.kind = "nfv" -> simulateNetFutureValue(f.transactions, x)

Null == <<>>

\* y * y2 < 0 of two doubles far from underflow: the signs are opposite
Sign(y) == IF y < 0 THEN -1 ELSE IF y > 0 THEN 1 ELSE 0

OppositeSigns(y, y2) == Sign(y) * Sign(y2) < 0

\* the scan that takes a segment whose endpoint values are not both on the
\* same side of zero
RECURSIVE findZeroCrossing_notStrict(_, _, _, _, _)
findZeroCrossing_notStrict(x, segmentLength, nSegments, k, f) ==
    IF k >= nSegments THEN Null
    ELSE LET x2 == FloatAdd(x, segmentLength) IN
         IF ~(Sign(Fn(f, x)) * Sign(Fn(f, x2)) > 0) THEN [a |-> x, b |-> x2]
         ELSE findZeroCrossing_notStrict(x2, segmentLength, nSegments, k + 1, f)

\* the loop of findZeroCrossing from its iteration k on, x being the left end
\* of segment k, segmentLength = (upperBound - lowerBound) / nSegments
RECURSIVE findZeroCrossing(_, _, _, _, _)
findZeroCrossing(x, segmentLength, nSegments, k, f) ==
    IF k >= nSegments THEN Null
    ELSE LET x2 == FloatAdd(x, segmentLength) IN
         IF OppositeSigns(Fn(f, x), Fn(f, x2)) THEN [a |-> x, b |-> x2]
         ELSE findZeroCrossing(x2, segmentLength, nSegments, k + 1, f)

BinarySearchIterations == 1000

ScanRounds == 100

\* this.#lowerBound + this.length() / 2.0
BinarySearch_getMid(lowerBound, upperBound) ==
    FloatAdd(lowerBound, FloatDiv(FloatSub(upperBound, lowerBound), 2))

\* what findAnyRoot ends in; scans lists the nSegments of the scans made,
\* iterations counts the bisection steps begun
RootFound(x, scans, crossing, j) ==
    [kind |-> "number", x |-> x, scans |-> scans, crossing |-> crossing,
     iterations |-> j]

RootNaN(scans) ==
    [kind |-> "NaN", x |-> 0, scans |-> scans, crossing |-> Null, iterations |-> 0]

RootThrown(scans, crossing, j) ==
    [kind |-> "threw", x |-> 0, scans |-> scans, crossing |-> crossing,
     iterations |-> j]

\* an iteration whose shrink keeps the half without the sign change
BinarySearchStep_wrongHalf(s, delta, f) ==
    LET m == BinarySearch_getMid(s.lo, s.hi)
        y_a == Fn(f, s.lo)
        y_m == Fn(f, m)
        y_b == Fn(f, s.hi)
    IN
    IF Abs(y_a) <= delta THEN [s EXCEPT !.j = @ + 1, !.done = TRUE, !.x = s.lo]
    ELSE IF Abs(y_m) <= delta THEN [s EXCEPT !.j = @ + 1, !.done = TRUE, !.x = m]
    ELSE IF Abs(y_b) <= delta THEN [s EXCEPT !.j = @ + 1, !.done = TRUE, !.x = s.hi]
    ELSE IF OppositeSigns(y_a, y_m) THEN [s EXCEPT !.j = @ + 1, !.lo = m]
    ELSE IF OppositeSigns(y_m, y_b) THEN [s EXCEPT !.j = @ + 1, !.hi = m]
    ELSE [s EXCEPT !.j = @ + 1]

\* one iteration of the inner loop of findAnyRoot: s holds the bounds of the
\* BinarySearch, the iterations begun and, once it returned, the value x
BinarySearchStep(s, delta, f) ==
    LET m == BinarySearch_getMid(s.lo, s.hi)
        y_a == Fn(f, s.lo)
        y_m == Fn(f, m)
        y_b == Fn(f, s.hi)
    IN
    IF Abs(y_a) <= delta THEN [s EXCEPT !.j = @ + 1, !.done = TRUE, !.x = s.lo]
    ELSE IF Abs(y_m) <= delta THEN [s EXCEPT !.j = @ + 1, !.done = TRUE, !.x = m]
    ELSE IF Abs(y_b) <= delta THEN [s EXCEPT !.j = @ + 1, !.done = TRUE, !.x = s.hi]
    ELSE IF OppositeSigns(y_a, y_m) THEN [s EXCEPT !.j = @ + 1, !.hi = m]
    ELSE IF OppositeSigns(y_m, y_b) THEN [s EXCEPT !.j = @ + 1, !.lo = m]
    ELSE [s EXCEPT !.j = @ + 1]

\* n iterations in the order of the loop, ended by the first that returns;
\* an iteration that moves neither bound is repeated unchanged by all that
\* follow it, which are counted without being evaluated again
RECURSIVE BinarySearchRun(_, _, _, _)
BinarySearchRun(s, n, delta, f) ==
    IF s.done \/ n = 0 THEN s
    ELSE LET next == BinarySearchStep(s, delta, f) IN
         IF next.done THEN next
         ELSE IF next.lo = s.lo /\ next.hi = s.hi THEN [s EXCEPT !.j = @ + n]
         ELSE BinarySearchRun(next, n - 1, delta, f)

\* the inner loop of findAnyRoot and the throw after it
BinarySearchLoop(crossing, delta, f, scans) ==
    LET end == BinarySearchRun([lo |-> crossing.a, hi |-> crossing.b, j |-> 0,
                                done |-> FALSE, x |-> 0],
                               BinarySearchIterations, delta, f)
    IN IF end.done THEN RootFound(end.x, scans, crossing, end.j)
       ELSE RootThrown(scans, crossing, end.j)

\* an outer loop that takes nothing off the budget
RECURSIVE findAnyRootLoop_budgetKept(_, _, _, _, _, _, _, _)
findAnyRootLoop_budgetKept(lowerBound, upperBound, budget, delta, f, segments, k, scans) ==
    IF k >= ScanRounds THEN RootNaN(scans)
    ELSE IF segments > budget THEN RootNaN(scans)
    ELSE
      LET crossing == findZeroCrossing(lowerBound,
                          FloatDiv(FloatSub(upperBound, lowerBound), segments),
                          segments, 0, f)
          scanned == Append(scans, segments)
      IN
      IF crossing = Null
      THEN findAnyRootLoop_budgetKept(lowerBound, upperBound, budget, delta, f,
                                      segments * 2, k + 1, scanned)
      ELSE BinarySearchLoop(crossing, delta, f, scanned)

\* the outer loop of findAnyRoot from its round k on
RECURSIVE findAnyRootLoop(_, _, _, _, _, _, _, _)
findAnyRootLoop(lowerBound, upperBound, budget, delta, f, segments, k, scans) ==
    IF k >= ScanRounds THEN RootNaN(scans)
    ELSE IF segments > budget THEN RootNaN(scans)
    ELSE
      LET crossing == findZeroCrossing(lowerBound,
                          FloatDiv(FloatSub(upperBound, lowerBound), segments),
                          segments, 0, f)
          scanned == Append(scans, segments)
      IN
      IF crossing = Null
      THEN findAnyRootLoop(lowerBound, upperBound, budget - segments, delta, f,
                           segments * 2, k + 1, scanned)
      ELSE BinarySearchLoop(crossing, delta, f, scanned)

findAnyRoot(lowerBound, upperBound, budget, delta, f) ==
    findAnyRootLoop(lowerBound, upperBound, budget, delta, f, 2, 0, <<>>)

\* the budgets that just pay and just fail to pay for the scans of 2, 4, ...,
\* 2^MaxScan segments
SolverBudgets == UNION { {2 * Pow2(k) - 3, 2 * Pow2(k) - 2} : k \in 1..MaxScan }

SolverCalls ==
    [fn : {"findAnyRoot"}, lowerBound : {-Half}, upperBound : {Half},
     budget : SolverBudgets, delta : {0, 1}, f : SolverFunctions]
    \cup [fn : {"findZeroCrossing"}, lowerBound : {-Half}, upperBound : {Half},
          nSegments : 1..Pow2(MaxScan), f : SolverFunctions]

CallFindZeroCrossing ==
    /\ Pending
    /\ args.fn = "findZeroCrossing"
    /\ result' = [crossing |->
                     findZeroCrossing(args.lowerBound,
                         FloatDiv(FloatSub(args.upperBound, args.lowerBound),
                                  args.nSegments),
                         args.nSegments, 0, args.f)]
    /\ UNCHANGED <<ledgerVars, args>>

CallFindAnyRoot ==
    /\ Pending
    /\ args.fn = "findAnyRoot"
    /\ result' = findAnyRoot(args.lowerBound, args.upperBound, args.budget,
                             args.delta, args.f)
    /\ UNCHANGED <<ledgerVars, args>>

\* ------------------------------------------------------------------- xirr
\* a Date is a count of half days, so that a calendar day holds two instants
getLocalDate(t) == t \div 2

\* [err, days]
countDays(a, b) ==
    IF b < a THEN [err |-> "b must be greater than a", days |-> 0]
    ELSE [err |-> NoErr, days |-> getLocalDate(b) - getLocalDate(a)]

XirrThrown(message) == [kind |-> "threw", message |-> message]

\* the budget of xirr, 10_000 in the code, lets the scans run up to the
\* greatest number of segments of the model. Its delta of 0.0000001 is below
\* the least non-zero value of the net future value, which is a multiple of
\* RateUnit^-lastDay: |y| <= delta is y = 0.
xirr(transactions) ==
    LET n == Len(transactions)
        hasPositiveCashFlow == \E k \in 1..n : transactions[k].cashFlow > 0
        hasNegativeCashFlow == \E k \in 1..n : transactions[k].cashFlow < 0
    IN
    IF ~hasPositiveCashFlow \/ ~hasNegativeCashFlow
    THEN XirrThrown("Invalid transactions: must contain at least one positive and one negative cash flow")
    ELSE
      LET firstDate == transactions[1].time
          counted == [k \in 1..n |-> countDays(firstDate, transactions[k].time)]
      IN
      IF \E k \in 1..n : counted[k].err # NoErr
      THEN XirrThrown("b must be greater than a")
      ELSE
        LET timed == [k \in 1..n |->
                        [amount |-> transactions[k].cashFlow,
                         days |-> counted[k].days]]
        IN findAnyRoot(-Half, Half, 2 * Pow2(MaxScan) - 2, 0,
                       [kind |-> "nfv", transactions |-> timed])
           @@ [days |-> [k \in 1..n |-> counted[k].days]]

CashFlows == {-16, -15, 0, 15, 16, 22, 32}

\* two instants on the first day, one on each of the next two
Times == {0, 1, 2, 4}

Flows == [cashFlow : CashFlows, time : Times]

\* every list of at most two flows, and the lists of three flows on three
\* successive days
TransactionLists ==
    {<<>>} \cup { <<a>> : a \in Flows } \cup { <<a, b>> : a, b \in Flows }
    \cup { << [cashFlow |-> a, time |-> 0], [cashFlow |-> b, time |-> 2],
              [cashFlow |-> c, time |-> 4] >> : a, b, c \in CashFlows }

XirrCalls == [fn : {"xirr"}, transactions : TransactionLists]

CallXirr ==
    /\ Pending
    /\ args.fn = "xirr"
    /\ result' = xirr(args.transactions)
    /\ UNCHANGED <<ledgerVars, args>>

\* toSorted((pair1, pair2) => pair1[0] - pair2[0]): a stable sort by date
RECURSIVE InsertByDate(_, _)
InsertByDate(sorted, pair) ==
    IF sorted = <<>> THEN <<pair>>
    ELSE IF sorted[Len(sorted)].time <= pair.time THEN Append(sorted, pair)
    ELSE Append(InsertByDate(SubSeq(sorted, 1, Len(sorted) - 1), pair),
                sorted[Len(sorted)])

RECURSIVE SortByDate(_)
SortByDate(pairs) ==
    IF pairs = <<>> THEN <<>>
    ELSE InsertByDate(SortByDate(SubSeq(pairs, 1, Len(pairs) - 1)),
                      pairs[Len(pairs)])

\* what formulajs.XIRR, a library outside the repository, can end in
FormulaOutcomes == {"throws", "null", "not a number", "NaN", "not finite", "number"}

\* calculateXirr that hands the sorted list to the library as it is
calculateXirr_zeroKept(dateAndCashFlowPairs, outcome) ==
    LET sorted == SortByDate(dateAndCashFlowPairs) IN
    IF Len(sorted) < 2
    THEN [isFailure |-> TRUE,
          message |-> "At least two values are required for XIRR calculation",
          solverRun |-> FALSE, solverInput |-> <<>>]
    ELSE [isFailure |-> outcome # "number",
          message |-> CASE outcome = "throws" -> "XIRR calculation failed: "
                        [] outcome = "null" -> "XIRR result null"
                        [] outcome = "not a number" -> "XIRR result not a number"
                        [] outcome = "NaN" -> "XIRR result NaN"
                        [] outcome = "not finite" -> "XIRR result not finite"
                        [] outcome = "number" -> "",
          solverRun |-> TRUE, solverInput |-> sorted]

\* the VRes calculateXirr returns when the library ends in outcome, with
\* whether the library was called and the list it was given
calculateXirr(dateAndCashFlowPairs, outcome) ==
    LET sorted == SortByDate(dateAndCashFlowPairs)
        kept == IF Len(sorted) >= 2 /\ sorted[Len(sorted)].cashFlow = 0
                THEN SubSeq(sorted, 1, Len(sorted) - 1)
                ELSE sorted
    IN
    IF Len(sorted) < 2
    THEN [isFailure |-> TRUE,
          message |-> "At least two values are required for XIRR calculation",
          solverRun |-> FALSE, solverInput |-> <<>>]
    ELSE [isFailure |-> outcome # "number",
          message |-> CASE outcome = "throws" -> "XIRR calculation failed: "
                        [] outcome = "null" -> "XIRR result null"
                        [] outcome = "not a number" -> "XIRR result not a number"
                        [] outcome = "NaN" -> "XIRR result NaN"
                        [] outcome = "not finite" -> "XIRR result not finite"
                        [] outcome = "number" -> "",
          solverRun |-> TRUE, solverInput |-> kept]

CalculateXirrCalls == [fn : {"calculateXirr"}, dateAndCashFlowPairs : TransactionLists]

CallCalculateXirr ==
    /\ Pending
    /\ args.fn = "calculateXirr"
    /\ \E outcome \in FormulaOutcomes :
           result' = calculateXirr(args.dateAndCashFlowPairs, outcome)
    /\ UNCHANGED <<ledgerVars, args>>

\* the bond holding whose finalize uses xirr: history holds the date and
\* the cashChange of each record
BondHolding_calculateXirr(history, latestTotalValue, latestDate) ==
    xirr([k \in 1..Len(history) |->
             [time |-> history[k].time, cashFlow |-> history[k].cashFlow]]
         \o << [time |-> latestDate, cashFlow |-> latestTotalValue] >>)

\* the last step of validateAndFinalize, this.#xirr = new Decimal(
\* this.calculateXirr()), solved being what calculateXirr ends in: what xirr
\* throws leaves validateAndFinalize, and with it
\* Portfolio.validateAndFinalize and processActivityList, which awaits it
\* outside any try; NaN becomes the Decimal NaN
BondHolding_finalizeXirr(history, solved) ==
    IF history = <<>>
    THEN [threw |-> FALSE, xirr |-> "unset", solver |-> [kind |-> "none"]]
    ELSE IF solved.kind = "threw"
    THEN [threw |-> TRUE, xirr |-> "unset", solver |-> solved]
    ELSE [threw |-> FALSE,
          xirr |-> IF solved.kind = "NaN" THEN "Decimal NaN" ELSE "Decimal",
          solver |-> solved]

\* chronological histories of at most two records, valued on the third day
FinalizeXirrCalls ==
    [fn : {"BondHolding.validateAndFinalize"},
     history : { h \in TransactionLists :
                   /\ Len(h) <= 2
                   /\ \A k \in 1..(Len(h) - 1) : h[k].time <= h[k + 1].time },
     latestTotalValue : {0, 16, 22, 32},
     latestDate : {4}]

CallBondFinalizeXirr ==
    /\ Pending
    /\ args.fn = "BondHolding.validateAndFinalize"
    /\ result' = BondHolding_finalizeXirr(args.history,
                      BondHolding_calculateXirr(args.history, args.latestTotalValue,
                                                args.latestDate))
    /\ UNCHANGED <<ledgerVars, args>>

\* ------------------------------------------------- processAction, by pair
\* One entry per (action, assetType) pair: it carries the pair's whole field
\* set, or, for a pair without one, the fields of a trade.
DispatchActions == Actions \cup {"Withdraw"}

DispatchAssetTypes == ASSET_TYPES \cup {"undefined"}

DispatchFieldValue(f, action, assetType) ==
    CASE f = "action" -> action
      [] f = "assetType" -> assetType
      [] f \in {"platform", "fromPlatform"} -> "A"
      [] f = "toPlatform" -> "B"
      [] f \in {"currency", "fromCurrency"} -> "EUR"
      [] f = "toCurrency" -> "USD"
      [] f = "assetCode" -> "X"
      [] f = "friendlyName" -> "n2"
      [] f = "notes" -> ""
      [] f = "taxValue" -> 0
      [] OTHER -> 1

DispatchEntry(action, assetType) ==
    LET expectedFields == getInputsByActionAndAsset(action, assetType)
        fields ==
            IF expectedFields # {} THEN expectedFields
            ELSE {"date", "action", "platform", "assetCode", "currency",
                  "totalShares", "unitValue", "totalValue"}
                 \cup (IF assetType = "undefined" THEN {} ELSE {"assetType"})
    IN [f \in fields |-> DispatchFieldValue(f, action, assetType)]

RECURSIVE processActivities(_, _)
processActivities(entries, pf) ==
    IF entries = <<>> THEN pf
    ELSE processActivities(Tail(entries), processAction(Head(entries), pf).pf)

\* platforms A and B with cash, and on A a holding X of one asset type
DispatchPortfolios ==
    { processActivities(CashSetup \o << E_NewAsset(1, "A", t, "X", "EUR", "n1") >>,
                        NewPortfolio) : t \in AssetKinds }

DispatchCalls ==
    [fn : {"processAction"}, action : DispatchActions,
     assetType : DispatchAssetTypes, portfolioObj : DispatchPortfolios]

CallProcessAction ==
    /\ Pending
    /\ args.fn = "processAction"
    /\ result' = processAction(DispatchEntry(args.action, args.assetType),
                               args.portfolioObj)
    /\ UNCHANGED <<ledgerVars, args>>

\* ------------------------------------------------- the total-value checks
\* Inputs as parseActionInputByName leaves them: parseDecimalInput(.., d)
\* accepts up to d decimals. The model takes values of up to MaxPlaces
\* decimals and, for the value under test, the product, its neighbours and
\* its roundings.
MaxPlaces == 2

DecimalDigits == {1, 5, 15}

maxDecimals(inputName) ==
    CASE inputName \in {"totalValue", "fromValue", "toValue"} -> 4
      [] inputName = "totalShares" -> 9
      [] inputName = "fromToCoefficient" -> 5
      [] inputName = "unitValue" -> 8

\* the Decimals of the model that parseDecimalInput yields for an input
parseDecimalInput(inputName) ==
    { d \in [digits : DecimalDigits, places : 0..MaxPlaces] :
        Decimal_decimalPlaces(d) <= maxDecimals(inputName) }

TotalsNear(product, inputName) ==
    { d \in { product,
              NewDecimal(product.digits + 1, product.places),
              Decimal_toDecimalPlaces(product, 2, "ROUND_HALF_UP"),
              Decimal_toDecimalPlaces(product, 2, "ROUND_FLOOR") } :
        Decimal_decimalPlaces(d) <= maxDecimals(inputName) }

TotalValueCalls ==
    UNION { [fn : {"validateTotalSharesTransactionValue"}, unitValue : {u},
             totalShares : {n}, totalValue : TotalsNear(Decimal_times(u, n), "totalValue")] :
            u \in parseDecimalInput("unitValue"), n \in parseDecimalInput("totalShares") }
    \cup
    UNION { [fn : {"validateCurrencyConversionTransactionValue"},
             fromToCoefficient : {c}, fromValue : {v},
             toValue : TotalsNear(Decimal_times(c, v), "toValue")] :
            c \in parseDecimalInput("fromToCoefficient"),
            v \in parseDecimalInput("fromValue") }

CallValidateTotalSharesTransactionValue ==
    /\ Pending
    /\ args.fn = "validateTotalSharesTransactionValue"
    /\ result' = [warnings |->
                     validateTotalSharesTransactionValue(args.unitValue,
                         args.totalShares, args.totalValue)]
    /\ UNCHANGED <<ledgerVars, args>>

CallValidateCurrencyConversionTransactionValue ==
    /\ Pending
    /\ args.fn = "validateCurrencyConversionTransactionValue"
    /\ result' = [warnings |->
                     validateCurrencyConversionTransactionValue(
                         args.fromToCoefficient, args.fromValue, args.toValue)]
    /\ UNCHANGED <<ledgerVars, args>>

\* ------------------------------------------------------- the calls together
Calls == UpdateCalls \cup VResCalls \cup SolverCalls \cup XirrCalls
         \cup FinalizeXirrCalls \cup CalculateXirrCalls \cup DispatchCalls
         \cup TotalValueCalls

InitCalls ==
    /\ Parked
    /\ args \in Calls
    /\ result = <<>>

NextCalls ==
    \/ CallStockUpdateShares
    \/ CallBondUpdateShares
    \/ CallIndexFundUpdateShares
    \/ CallCashUpdateValue
    \/ CallGetOrThrow
    \/ CallAnd
    \/ CallFindAnyRoot
    \/ CallFindZeroCrossing
    \/ CallXirr
    \/ CallBondFinalizeXirr
    \/ CallCalculateXirr
    \/ CallProcessAction
    \/ CallValidateTotalSharesTransactionValue
    \/ CallValidateCurrencyConversionTransactionValue

SpecCalls == InitCalls /\ [][NextCalls]_vars

\* ------------------------------------------------- the finalize pass, step by step
\* The pass over three stock holdings with the price lookups in flight:
\* args.holdings are the holdings, result.status[k] is where the promise of
\* holding k's validateAndFinalize stands, result.all the promise of
\* Promise.all, result.caller the await of processActivityList, and
\* result.read the holdings whose XIRR text the caller has read.
FinalizeHoldings ==
    LET stock == NewStockHolding("X", "n1", "EUR")
        bought == StockHolding_updateShares(stock, 1, -1, 1, FALSE, "BUY", FALSE, <<1>>).h
        sold == StockHolding_updateShares(bought, -1, 1, 2, FALSE, "SELL", FALSE, <<1>>).h
    IN {stock, bought, sold}

\* validateAndFinalize up to its await: the checks of the history and of the
\* cash identity throw, a holding with shares awaits getAssetPrice, any
\* other holding runs to its end
StockHolding_finalizeStart(h) ==
    IF AssetHistoryError(h) # NoErr \/ ~StockCashIdentity(h) THEN "rejected"
    ELSE IF h.shares > 0 THEN "awaiting"
    ELSE IF StockHolding_validateAndFinalize(h, <<>>) = NoErr THEN "fulfilled"
    ELSE "rejected"

\* validateAndFinalize from the value its await resolves to
StockHolding_finalizeResume(h, price) ==
    IF StockHolding_validateAndFinalize(h, price) = NoErr THEN "fulfilled"
    ELSE "rejected"

\* a promise that is fulfilled as soon as one of the promises is
PromiseAll_any(status) ==
    IF \E k \in DOMAIN status : status[k] = "rejected" THEN "rejected"
    ELSE IF \E k \in DOMAIN status : status[k] = "fulfilled" THEN "fulfilled"
    ELSE "pending"

\* Promise.all: rejected once a promise is rejected, fulfilled once all are
PromiseAll(status) ==
    IF \E k \in DOMAIN status : status[k] = "rejected" THEN "rejected"
    ELSE IF \A k \in DOMAIN status : status[k] = "fulfilled" THEN "fulfilled"
    ELSE "pending"

InitFinalize ==
    /\ Parked
    /\ args \in [fn : {"Portfolio.validateAndFinalize"},
                  holdings : [1..3 -> FinalizeHoldings]]
    /\ result = <<>>

\* the map over the platforms and their holdings calls every
\* validateAndFinalize, each of which runs up to its await
FinalizeDispatch ==
    /\ Pending
    /\ result' = [status |-> [k \in 1..3 |-> StockHolding_finalizeStart(args.holdings[k])],
                  all |-> "pending", caller |-> "awaiting", read |-> {}]
    /\ UNCHANGED <<ledgerVars, args>>

\* getAssetPrice of one holding resolves, to a price or to null
LookupResolves ==
    /\ ~Pending
    /\ \E k \in 1..3, price \in PriceLookups :
           /\ result.status[k] = "awaiting"
           /\ result' = [result EXCEPT !.status[k] =
                             StockHolding_finalizeResume(args.holdings[k], price)]
    /\ UNCHANGED <<ledgerVars, args>>

PromiseAllSettles ==
    /\ ~Pending
    /\ result.all = "pending"
    /\ PromiseAll(result.status) # "pending"
    /\ result' = [result EXCEPT !.all = PromiseAll(result.status)]
    /\ UNCHANGED <<ledgerVars, args>>

\* await portfolioObj.validateAndFinalize() and the return after it
AwaitReturns ==
    /\ ~Pending
    /\ result.caller = "awaiting"
    /\ result.all = "fulfilled"
    /\ result' = [result EXCEPT !.caller = "returned"]
    /\ UNCHANGED <<ledgerVars, args>>

AwaitThrows ==
    /\ ~Pending
    /\ result.caller = "awaiting"
    /\ result.all = "rejected"
    /\ result' = [result EXCEPT !.caller = "threw"]
    /\ UNCHANGED <<ledgerVars, args>>

\* the caller of processActivityList reads getXirrStr of a holding of the
\* portfolio it was returned
CallerReads ==
    /\ ~Pending
    /\ result.caller = "returned"
    /\ \E k \in 1..3 : result' = [result EXCEPT !.read = @ \cup {k}]
    /\ UNCHANGED <<ledgerVars, args>>

NextFinalize ==
    \/ FinalizeDispatch
    \/ LookupResolves
    \/ PromiseAllSettles
    \/ AwaitReturns
    \/ AwaitThrows
    \/ CallerReads

SpecFinalize == InitFinalize /\ [][NextFinalize]_vars

\* ------------------------------------------- findAnyRoot, step by step
\* The scans of findAnyRoot as one step, then the bisection one iteration at
\* a time. result holds the BinarySearch (lo, hi), the iterations begun (j),
\* the crossing the scan returned and, in prev, the bounds the last
\* iteration started from. An iteration that moves neither bound is repeated
\* unchanged by all that follow it; they are counted without being taken.
BisectionCalls ==
    [fn : {"findAnyRoot"}, lowerBound : {-Half}, upperBound : {Half},
     budget : SolverBudgets, delta : {0, 1}, f : SolverFunctions]

InitBisection ==
    /\ Parked
    /\ args \in BisectionCalls
    /\ result = <<>>

\* the BinarySearch findAnyRoot builds on the crossing its scans found
BisectionStart(scanned) ==
    IF scanned.crossing = Null
    THEN [phase |-> "NaN", crossing |-> Null, lo |-> 0, hi |-> 0, j |-> 0,
          done |-> FALSE, x |-> 0, prev |-> <<>>, scans |-> scanned.scans]
    ELSE [phase |-> "bisection", crossing |-> scanned.crossing,
          lo |-> scanned.crossing.a, hi |-> scanned.crossing.b, j |-> 0,
          done |-> FALSE, x |-> 0, prev |-> <<>>, scans |-> scanned.scans]

FindAnyRootScan ==
    /\ Pending
    /\ result' = BisectionStart(findAnyRoot(args.lowerBound, args.upperBound,
                                            args.budget, args.delta, args.f))
    /\ UNCHANGED <<ledgerVars, args>>

\* the call after an iteration that left the BinarySearch as next
BisectionAfter(r, next) ==
    [r EXCEPT
       !.phase = IF next.done THEN "returned" ELSE "bisection",
       !.lo = next.lo, !.hi = next.hi, !.done = next.done, !.x = next.x,
       !.j = IF ~next.done /\ next.lo = r.lo /\ next.hi = r.hi
             THEN BinarySearchIterations ELSE next.j,
       !.prev = <<[lo |-> r.lo, hi |-> r.hi]>>]

BinarySearchIterate ==
    /\ ~Pending
    /\ result.phase = "bisection"
    /\ result.j < BinarySearchIterations
    /\ result' = BisectionAfter(result,
                     BinarySearchStep([lo |-> result.lo, hi |-> result.hi,
                                       j |-> result.j, done |-> FALSE, x |-> 0],
                                      args.delta, args.f))
    /\ UNCHANGED <<ledgerVars, args>>

BinarySearchThrow ==
    /\ ~Pending
    /\ result.phase = "bisection"
    /\ result.j >= BinarySearchIterations
    /\ result' = [result EXCEPT !.phase = "threw"]
    /\ UNCHANGED <<ledgerVars, args>>

NextBisection ==
    \/ FindAnyRootScan
    \/ BinarySearchIterate
    \/ BinarySearchThrow

SpecBisection == InitBisection /\ [][NextBisection]_vars

\* ================================================================ properties
\* the holdings of a portfolio, by kind
CashHoldingsOf(pf) ==
    UNION { { pf.platforms[p].cashHoldings[c] : c \in DOMAIN pf.platforms[p].cashHoldings } :
            p \in DOMAIN pf.platforms }

StockHoldingsOf(pf) ==
    UNION { { pf.platforms[p].stockHoldings[c] : c \in DOMAIN pf.platforms[p].stockHoldings } :
            p \in DOMAIN pf.platforms }

BondHoldingsOf(pf) ==
    UNION { { pf.platforms[p].bondHoldings[c] : c \in DOMAIN pf.platforms[p].bondHoldings } :
            p \in DOMAIN pf.platforms }

IndexFundHoldingsOf(pf) ==
    UNION { { pf.platforms[p].indexFundHoldings[c] :
                c \in DOMAIN pf.platforms[p].indexFundHoldings } :
            p \in DOMAIN pf.platforms }

AssetHoldingsOf(pf) ==
    StockHoldingsOf(pf) \cup BondHoldingsOf(pf) \cup IndexFundHoldingsOf(pf)

\* the last entry handed to processAction raised a fatal error
LastCritical ==
    /\ i > 0
    /\ (i - 1) \in DOMAIN activityErrorMap
    /\ activityErrorMap[i - 1].critical

\* the last entry got through the parser
LastParsed == parseActionInputsByNames(lastItem).err = NoErr

\* the last entry is dated strictly before the watermark it met
LastEarlier ==
    /\ lastItem.action # "none"
    /\ before.latestDate # 0
    /\ lastItem.date < before.latestDate

\* C1: entries are handed to processAction in index order, each once, and
\* after the first entry that raises a fatal error no further entry is
\* processed: the only critical message sits at the last processed index
\* and the loop is over.
C1_InOrderUntilFirstFatal ==
    /\ processed = [k \in 1..i |-> k - 1]
    /\ criticalErrorOccurred => pc # "loop"
    /\ \A k \in DOMAIN activityErrorMap :
         activityErrorMap[k].critical => k = i - 1 /\ criticalErrorOccurred

C1_Witness ==
    /\ pc = "returned"
    /\ LastCritical
    /\ i >= 2
    /\ i < ledgerLen

\* C2: when the last entry raised a fatal error, every holding of the
\* portfolio (balance, shares, cash-flow totals, history) is as it was just
\* before that entry was processed.
C2_NoPartialMutation ==
    LastCritical => portfolioObj.platforms = before.platforms

\* C3: conservation: in every reachable state the valueChange fields of a
\* holding's history add up to its balance (cash) or its share count
\* (stock, bond, index fund), also after a rejected update.
C3_Conservation ==
    /\ \A h \in CashHoldingsOf(portfolioObj) :
         getHistoryFieldSum(h.history, "valueChange") = h.value
    /\ \A h \in AssetHoldingsOf(portfolioObj) :
         getHistoryFieldSum(h.history, "valueChange") = h.shares

\* C4: an entry dated strictly before the watermark raises a fatal error and
\* leaves the watermark alone; a parsed entry dated at or after the
\* watermark sets the watermark to its date; the watermark never decreases.
C4_ChronologicalGate ==
    /\ portfolioObj.latestDate >= before.latestDate
    /\ LastEarlier => LastCritical /\ portfolioObj.latestDate = before.latestDate
    /\ LastParsed /\ ~LastEarlier => portfolioObj.latestDate = lastItem.date

C4_Witness ==
    /\ LastParsed
    /\ LastEarlier
    /\ LastCritical
    /\ portfolioObj.latestDate = before.latestDate

\* C5: the finalize pass runs at most once, only when the loop has ended
\* with every entry processed and none fatal; a call that ended without a
\* fatal error has run it, a call with a fatal error never does.
C5_FinalizeOnceAfterCleanLoop ==
    /\ finalizeCount <= 1
    /\ finalizeCount = 1 =>
         /\ ~criticalErrorOccurred
         /\ i = ledgerLen
         /\ Len(processed) = ledgerLen
         /\ pc \in {"returned", "threw"}
    /\ criticalErrorOccurred => finalizeCount = 0
    /\ pc \in {"returned", "threw"} /\ ~criticalErrorOccurred => finalizeCount = 1

C5_Witness ==
    /\ finalizeCount = 1
    /\ pc = "returned"
    /\ i = ledgerLen
    /\ i >= 2

\* C6: processActivityList never ends by raising an error: for every
\* non-empty ledger it returns the triple.
C6_AlwaysReturnsTriple == pc # "threw"

\* C7 as stated: when the last entry produced warnings and then raised a
\* fatal error, its entry in the index-to-message map contains those
\* warnings.
C7_WarningsKeptOnFatal ==
    LastCritical /\ Len(lastWarnings) > 0 =>
        activityErrorMap[i - 1].warnings = lastWarnings

\* C7 amended: the warnings of an entry are recorded under its index when
\* the entry did not raise; the map entry of an entry that raised a fatal
\* error holds the critical error message alone, without warnings.
C7_WarningsOnlyWhenNotFatal ==
    /\ \A k \in DOMAIN activityErrorMap :
         activityErrorMap[k].critical =>
             activityErrorMap[k].warnings = <<>> /\ activityErrorMap[k].text # ""
    /\ i > 0 /\ ~LastCritical /\ Len(lastWarnings) > 0 =>
         /\ (i - 1) \in DOMAIN activityErrorMap
         /\ activityErrorMap[i - 1].warnings = lastWarnings

C7_Witness ==
    /\ LastCritical
    /\ Len(lastWarnings) > 0
    /\ activityErrorMap[i - 1].warnings = <<>>

\* C8: in every reachable state the cash categories of a holding reconcile
\* with its total: -buyCash + sellCash + incomeCash + otherCash for a stock,
\* buyCash + interestCash for a bond, -buyCash + sellCash for an index fund.
C8_CashCategoriesReconcile ==
    /\ \A h \in StockHoldingsOf(portfolioObj) : StockCashIdentity(h)
    /\ \A h \in BondHoldingsOf(portfolioObj) : BondCashIdentity(h)
    /\ \A h \in IndexFundHoldingsOf(portfolioObj) : IndexFundCashIdentity(h)

\* C9: every holding's history is non-decreasing by date, and its last
\* record is dated no later than the portfolio's watermark.
C9_HistoriesChronological ==
    \A h \in CashHoldingsOf(portfolioObj) \cup AssetHoldingsOf(portfolioObj) :
        /\ \A k \in 2..Len(h.history) : h.history[k - 1].date <= h.history[k].date
        /\ Len(h.history) > 0 =>
               h.history[Len(h.history)].date <= portfolioObj.latestDate

C9_Witness ==
    \E h \in CashHoldingsOf(portfolioObj) \cup AssetHoldingsOf(portfolioObj) :
        /\ Len(h.history) >= 2
        /\ h.history[1].date < h.history[Len(h.history)].date

\* the key a NewAsset entry adds: the currency for cash, else the asset code
NewAssetKey(item) ==
    IF item.assetType = "Cash" THEN item.currency ELSE item.assetCode

UsedKeys(platform) ==
    DOMAIN platform.cashHoldings \cup DOMAIN platform.stockHoldings
    \cup DOMAIN platform.indexFundHoldings \cup DOMAIN platform.bondHoldings

\* the last entry is a NewAsset that reached its platform with a key the
\* platform already uses
LastDuplicateNewAsset ==
    /\ LastParsed
    /\ ~LastEarlier
    /\ lastItem.action = "NewAsset"
    /\ lastItem.platform \in DOMAIN before.platforms
    /\ NewAssetKey(lastItem) \in UsedKeys(before.platforms[lastItem.platform])

\* C10: within a platform no key is in two of the four holding maps, and a
\* NewAsset whose code or currency the platform already uses raises a fatal
\* error and adds nothing.
C10_AssetCodesUnique ==
    /\ \A p \in DOMAIN portfolioObj.platforms :
         LET pl == portfolioObj.platforms[p] IN
         /\ DOMAIN pl.cashHoldings \cap DOMAIN pl.stockHoldings = {}
         /\ DOMAIN pl.cashHoldings \cap DOMAIN pl.indexFundHoldings = {}
         /\ DOMAIN pl.cashHoldings \cap DOMAIN pl.bondHoldings = {}
         /\ DOMAIN pl.stockHoldings \cap DOMAIN pl.indexFundHoldings = {}
         /\ DOMAIN pl.stockHoldings \cap DOMAIN pl.bondHoldings = {}
         /\ DOMAIN pl.indexFundHoldings \cap DOMAIN pl.bondHoldings = {}
    /\ LastDuplicateNewAsset =>
         LastCritical /\ portfolioObj.platforms = before.platforms

C10_Witness ==
    /\ LastDuplicateNewAsset
    /\ LastCritical
    /\ lastItem.assetType = "Stock"
    /\ NewAssetKey(lastItem) \in
           DOMAIN before.platforms[lastItem.platform].cashHoldings

\* the non-cash holdings of a platform as <<kind, code, friendly name>>
NamedHoldings(platform) ==
    { <<"Stock", c, platform.stockHoldings[c].friendlyName>> :
        c \in DOMAIN platform.stockHoldings }
    \cup { <<"IndexFund", c, platform.indexFundHoldings[c].friendlyName>> :
             c \in DOMAIN platform.indexFundHoldings }
    \cup { <<"Bond", c, platform.bondHoldings[c].friendlyName>> :
             c \in DOMAIN platform.bondHoldings }

\* the last entry is a NewAsset of a non-cash holding that reached its
\* platform with a new code and a friendly name the platform already uses
LastDuplicateName ==
    /\ LastParsed
    /\ ~LastEarlier
    /\ lastItem.action = "NewAsset"
    /\ lastItem.assetType # "Cash"
    /\ lastItem.platform \in DOMAIN before.platforms
    /\ \E n \in NamedHoldings(before.platforms[lastItem.platform]) :
         n[3] = lastItem.friendlyName

\* C11: within a platform no two non-cash holdings, of the same or of
\* different kinds, share a friendly name, and a NewAsset whose friendly name
\* the platform already uses raises a fatal error and adds nothing.
C11_FriendlyNamesUnique ==
    /\ \A p \in DOMAIN portfolioObj.platforms :
         \A m, n \in NamedHoldings(portfolioObj.platforms[p]) :
             m[3] = n[3] => m = n
    /\ LastDuplicateName =>
         LastCritical /\ portfolioObj.platforms = before.platforms

C11_Witness ==
    /\ LastDuplicateName
    /\ LastCritical
    /\ ~LastDuplicateNewAsset
    /\ \E n \in NamedHoldings(before.platforms[lastItem.platform]) :
         n[3] = lastItem.friendlyName /\ n[1] # lastItem.assetType

\* the holding an entry names by asset type and currency or asset code
HoldingMapOf(item, platform) ==
    CASE item.assetType = "Cash" -> platform.cashHoldings
      [] item.assetType = "Stock" -> platform.stockHoldings
      [] item.assetType = "Bond" -> platform.bondHoldings
      [] item.assetType = "IndexFund" -> platform.indexFundHoldings

\* the last entry is a Check that reached an existing holding
LastCheckOnHolding ==
    /\ LastParsed
    /\ ~LastEarlier
    /\ lastItem.action = "Check"
    /\ lastItem.platform \in DOMAIN before.platforms
    /\ NewAssetKey(lastItem) \in
           DOMAIN HoldingMapOf(lastItem, before.platforms[lastItem.platform])

\* the holding's live amount and the amount the Check asserts
LastCheckLive ==
    LET h == HoldingMapOf(lastItem, before.platforms[lastItem.platform])[NewAssetKey(lastItem)]
    IN IF lastItem.assetType = "Cash" THEN h.value ELSE h.shares

LastCheckAsserted ==
    IF lastItem.assetType = "Cash" THEN lastItem.totalValue ELSE lastItem.totalShares

\* the ledger was [NewPlatform B, NewAsset Cash B USD, Deposit 100, Check 100],
\* dated in order
DepositThenCheckLedger ==
    /\ scenario.setup = CheckSetup
    /\ ~LastEarlier
    /\ i = 4
    /\ lastItem.action = "Check"
    /\ lastItem.totalValue = 100
    /\ Len(before.platforms["B"].cashHoldings["USD"].history) = 1
    /\ ledgerLen = 4

\* C12: a Check on an existing holding is never fatal; it yields no warning
\* when the asserted amount equals the live balance or share count and
\* exactly one when it differs. The ledger [NewPlatform B, NewAsset Cash B
\* USD, Deposit 100, Check 100] has balance 100, no message and no fatal
\* error, and its call returns.
C12_CheckWarningCount ==
    /\ LastCheckOnHolding =>
         /\ ~LastCritical
         /\ Len(lastWarnings) = (IF LastCheckLive = LastCheckAsserted THEN 0 ELSE 1)
         /\ ((i - 1) \in DOMAIN activityErrorMap) = (LastCheckLive # LastCheckAsserted)
    /\ DepositThenCheckLedger =>
         /\ portfolioObj.platforms["B"].cashHoldings["USD"].value = 100
         /\ activityErrorMap = EmptyMap
         /\ ~criticalErrorOccurred
         /\ pc # "threw"

C12_Witness ==
    /\ DepositThenCheckLedger
    /\ pc = "returned"
    /\ LastCheckOnHolding
    /\ Len(lastWarnings) = 0

\* C13: a Check entry, matching or not, fatal or not, leaves the platforms
\* and every holding (balance, shares, cash-flow totals, history) as they
\* were before it.
C13_CheckIsReadOnly ==
    lastItem.action = "Check" /\ finalizeCount = 0 =>
        portfolioObj.platforms = before.platforms

C13_Witness ==
    /\ LastCheckOnHolding
    /\ LastCheckLive # LastCheckAsserted
    /\ finalizeCount = 0
    /\ lastWarnings # <<>>
    /\ portfolioObj.platforms = before.platforms

\* the parser rejected the last entry
LastRejected ==
    LastCritical /\ activityErrorMap[i - 1].text = "Problem parsing input"

\* the field set of the last entry's (action, asset type) pair
LastExpectedFields ==
    getInputsByActionAndAsset(lastItem.action,
        IF "assetType" \in DOMAIN lastItem THEN lastItem.assetType ELSE "undefined")

\* the last entry is a Buy of stock without a feeValue that was applied
LastBuyStockWithoutFee ==
    /\ lastItem.action = "Buy"
    /\ lastItem.assetType = "Stock"
    /\ "feeValue" \notin DOMAIN lastItem
    /\ i > 0
    /\ ~LastCritical

LastFee == IF "feeValue" \in DOMAIN lastItem THEN lastItem.feeValue ELSE 0

\* the last entry was applied without a fatal error and nothing ran since
LastApplied ==
    /\ i > 0
    /\ lastItem.action # "none"
    /\ ~LastCritical
    /\ finalizeCount = 0

\* the cash holding the last entry names, before and after the entry
LastCashBefore == before.platforms[lastItem.platform].cashHoldings[lastItem.currency]

LastCashAfter == portfolioObj.platforms[lastItem.platform].cashHoldings[lastItem.currency]

\* the asset holding the last entry names, before and after the entry
LastAssetBefore ==
    HoldingMapOf(lastItem, before.platforms[lastItem.platform])[lastItem.assetCode]

LastAssetAfter ==
    HoldingMapOf(lastItem, portfolioObj.platforms[lastItem.platform])[lastItem.assetCode]

LastBuyStockOrBond ==
    /\ LastApplied
    /\ lastItem.action = "Buy"
    /\ lastItem.assetType \in {"Stock", "Bond"}

\* C15: an applied Buy of stock or bond with total value V, fee F, S shares
\* and unit value U takes V + F off the cash holding, adds S shares, appends
\* one record (S, -(V + F)) to the asset and one record -(V + F) to the cash
\* holding, and sets the latest unit value to U at the entry's date.
C15_BuyEffect ==
    LastBuyStockOrBond =>
        LET spent == lastItem.totalValue + LastFee IN
        /\ LastCashAfter.value = LastCashBefore.value - spent
        /\ Len(LastCashAfter.history) = Len(LastCashBefore.history) + 1
        /\ SubSeq(LastCashAfter.history, 1, Len(LastCashBefore.history))
               = LastCashBefore.history
        /\ LastCashAfter.history[Len(LastCashAfter.history)].valueChange = -spent
        /\ LastCashAfter.history[Len(LastCashAfter.history)].date = lastItem.date
        /\ LastAssetAfter.shares = LastAssetBefore.shares + lastItem.totalShares
        /\ LastAssetAfter.history =
               Append(LastAssetBefore.history,
                      [date |-> lastItem.date, valueChange |-> lastItem.totalShares,
                       cashChange |-> -spent, type |-> "BUY"])
        /\ LastAssetAfter.latestUnitValueAndDate =
               <<[value |-> lastItem.unitValue, date |-> lastItem.date]>>

C15_Witness ==
    /\ LastBuyStockOrBond
    /\ lastItem.assetType = "Stock"
    /\ LastFee > 0
    /\ LastAssetAfter.shares = 1

LastSellStock ==
    /\ LastApplied
    /\ lastItem.action = "Sell"
    /\ lastItem.assetType = "Stock"

\* what an applied Sell of stock does besides crediting the cash holding:
\* the share count falls by S and the entry's unit value is the latest price
LastSellStockShares ==
    /\ LastAssetAfter.shares = LastAssetBefore.shares - lastItem.totalShares
    /\ LastAssetAfter.latestUnitValueAndDate =
           <<[value |-> lastItem.unitValue, date |-> lastItem.date]>>

\* C16 as stated: an applied Sell of stock with total value V, fee F and S
\* shares adds V + F to the cash holding, takes S shares off the holding and
\* records the entry's unit value as the latest price.
C16_SellEffectFeeAdded ==
    LastSellStock =>
        /\ LastCashAfter.value = LastCashBefore.value + lastItem.totalValue + LastFee
        /\ LastSellStockShares

\* C16 amended: an applied Sell of stock with total value V, fee F and S
\* shares adds V - F to the cash holding, takes S shares off the holding and
\* records the entry's unit value as the latest price.
C16_SellEffect ==
    LastSellStock =>
        /\ LastCashAfter.value = LastCashBefore.value + lastItem.totalValue - LastFee
        /\ LastSellStockShares

C16_Witness ==
    /\ LastSellStock
    /\ LastFee > 0
    /\ LastAssetBefore.shares = 1
    /\ LastAssetAfter.shares = 0

\* the last entry is a Buy or Sell with a zero or negative unit value whose
\* other fields are valid: it parsed, it is not dated early, its asset and
\* cash holdings exist in its currency, its share count and total value are
\* positive and its fee is non-negative and smaller than the total value
LastTradeAtNonPositivePrice ==
    /\ i > 0
    /\ lastItem.action \in {"Buy", "Sell"}
    /\ LastParsed
    /\ ~LastEarlier
    /\ lastItem.unitValue <= 0
    /\ lastItem.totalShares > 0
    /\ lastItem.totalValue > 0
    /\ LastFee >= 0
    /\ LastFee < lastItem.totalValue
    /\ lastItem.platform \in DOMAIN before.platforms
    /\ lastItem.currency \in DOMAIN before.platforms[lastItem.platform].cashHoldings
    /\ lastItem.assetCode \in
           DOMAIN HoldingMapOf(lastItem, before.platforms[lastItem.platform])
    /\ LastAssetBefore.currency = lastItem.currency

\* C17: a Buy or Sell of stock, bond or index fund whose unit value is zero
\* or negative, its other fields being valid, gets a warning and no fatal
\* error, moves the cash and the shares, and the loop goes on.
C17_NonPositivePriceIsWarning ==
    (LastTradeAtNonPositivePrice /\ finalizeCount = 0) =>
        /\ ~LastCritical
        /\ ~criticalErrorOccurred
        /\ (i - 1) \in DOMAIN activityErrorMap
        /\ LastCashAfter.value # LastCashBefore.value
        /\ LastAssetAfter.shares # LastAssetBefore.shares

\* a Buy of stock at unit value zero ended in the fatal error of updateShares
C17_ZeroPriceFatal ==
    /\ LastTradeAtNonPositivePrice
    /\ lastItem.assetType = "Stock"
    /\ lastItem.unitValue = 0
    /\ LastCritical
    /\ activityErrorMap[i - 1].text = "unitValue: Zero"

\* the last entry is a Dividend, a bond Interest or a cash Interest that got
\* through the parser and the chronological gate
LastIncome ==
    /\ i > 0
    /\ lastItem.action \in {"Dividend", "Interest"}
    /\ LastParsed
    /\ ~LastEarlier
    /\ finalizeCount = 0

\* gross > 0, net > 0, tax >= 0, net <= gross, tax <= gross, net + tax = gross
LastIncomeValuesValid ==
    /\ lastItem.grossValue > 0
    /\ lastItem.netValue > 0
    /\ lastItem.taxValue >= 0
    /\ lastItem.netValue <= lastItem.grossValue
    /\ lastItem.taxValue <= lastItem.grossValue
    /\ lastItem.netValue + lastItem.taxValue = lastItem.grossValue

\* what an applied income entry leaves: the cash holding up by the net value
\* and, on a stock or bond, one more record with share delta 0 and cash
\* change the net value
LastIncomeApplied ==
    /\ LastCashAfter.value = LastCashBefore.value + lastItem.netValue
    /\ lastItem.assetType # "Cash" =>
           /\ Len(LastAssetAfter.history) = Len(LastAssetBefore.history) + 1
           /\ SubSeq(LastAssetAfter.history, 1, Len(LastAssetBefore.history))
                  = LastAssetBefore.history
           /\ LastAssetAfter.history[Len(LastAssetAfter.history)].valueChange = 0
           /\ LastAssetAfter.history[Len(LastAssetAfter.history)].cashChange
                  = lastItem.netValue

\* C18: a Dividend, bond Interest or cash Interest is applied only if
\* gross > 0, net > 0, tax >= 0, net <= gross, tax <= gross and
\* net + tax = gross; otherwise it raises a fatal error and no holding
\* changes. When applied, the cash holding rises by the net value and a
\* stock or bond gets one record with share delta 0 and cash change net.
C18_IncomeIdentity ==
    LastIncome =>
        /\ ~LastCritical => (LastIncomeValuesValid /\ LastIncomeApplied)
        /\ LastCritical => portfolioObj.platforms = before.platforms

\* the same for Dividend and bond Interest alone
C18_AssetIncomeIdentity ==
    (LastIncome /\ lastItem.assetType # "Cash") =>
        /\ ~LastCritical => (LastIncomeValuesValid /\ LastIncomeApplied)
        /\ LastCritical => portfolioObj.platforms = before.platforms

\* a cash Interest with valid values on an existing cash holding is fatal
\* and leaves the balance raised
C18_CashInterestFatal ==
    /\ LastIncome
    /\ lastItem.assetType = "Cash"
    /\ LastIncomeValuesValid
    /\ LastCritical
    /\ activityErrorMap[i - 1].text = "Invalid CashChangeType"
    /\ LastCashAfter.value = LastCashBefore.value + lastItem.netValue

\* the last entry is a Transfer that got through the parser and the gate
LastTransfer ==
    /\ i > 0
    /\ lastItem.action = "Transfer"
    /\ LastParsed
    /\ ~LastEarlier
    /\ finalizeCount = 0

\* a platform or a cash holding the last Transfer needs is missing
LastTransferEndMissing ==
    \E p \in {lastItem.fromPlatform, lastItem.toPlatform} :
        \/ p \notin DOMAIN before.platforms
        \/ lastItem.currency \notin DOMAIN before.platforms[p].cashHoldings

CashValueIn(pf, p, c) == pf.platforms[p].cashHoldings[c].value

\* every holding but the two cash holdings of the last Transfer is as before
LastTransferOthersUnchanged ==
    /\ DOMAIN portfolioObj.platforms = DOMAIN before.platforms
    /\ \A p \in DOMAIN before.platforms :
        /\ portfolioObj.platforms[p].stockHoldings = before.platforms[p].stockHoldings
        /\ portfolioObj.platforms[p].bondHoldings = before.platforms[p].bondHoldings
        /\ portfolioObj.platforms[p].indexFundHoldings
               = before.platforms[p].indexFundHoldings
        /\ DOMAIN portfolioObj.platforms[p].cashHoldings
               = DOMAIN before.platforms[p].cashHoldings
        /\ \A c \in DOMAIN before.platforms[p].cashHoldings :
               (c # lastItem.currency
                \/ p \notin {lastItem.fromPlatform, lastItem.toPlatform})
               => portfolioObj.platforms[p].cashHoldings[c]
                      = before.platforms[p].cashHoldings[c]

\* the balances after an applied Transfer of V with fee F
LastTransferEffect ==
    LET from == lastItem.fromPlatform
        to == lastItem.toPlatform
        c == lastItem.currency
    IN /\ CashValueIn(portfolioObj, from, c)
              = CashValueIn(before, from, c) - (lastItem.totalValue + LastFee)
       /\ CashValueIn(portfolioObj, to, c)
              = CashValueIn(before, to, c) + lastItem.totalValue
       /\ CashValueIn(portfolioObj, from, c) + CashValueIn(portfolioObj, to, c)
              = CashValueIn(before, from, c) + CashValueIn(before, to, c) - LastFee
       /\ LastTransferOthersUnchanged

\* C19 as stated: an applied Transfer of V with fee F takes V + F off
\* fromPlatform's cash holding and adds V to toPlatform's, so the two
\* balances together fall by F and no other holding changes; the entry is
\* fatal when a platform or a cash holding it needs does not exist.
C19_TransferEffectAnyPlatforms ==
    LastTransfer =>
        /\ ~LastCritical => LastTransferEffect
        /\ LastTransferEndMissing => LastCritical

\* C19 amended: the same for a Transfer between two different platforms.
C19_TransferEffect ==
    LastTransfer =>
        /\ (~LastCritical /\ lastItem.fromPlatform # lastItem.toPlatform)
               => LastTransferEffect
        /\ LastTransferEndMissing => LastCritical

C19_Witness ==
    /\ LastTransfer
    /\ ~LastCritical
    /\ lastItem.fromPlatform # lastItem.toPlatform
    /\ LastFee > 0
    /\ CashValueIn(before, lastItem.toPlatform, lastItem.currency) # 0

\* a Transfer from a platform to itself was applied
C19_SelfTransferApplied ==
    /\ LastTransfer
    /\ ~LastCritical
    /\ lastItem.fromPlatform = lastItem.toPlatform

\* the last entry is a Split that reached its stock holding: it got through
\* the parser and the gate, the holding exists in the entry's currency and
\* the multiplier and both share counts are positive
LastSplit ==
    /\ i > 0
    /\ lastItem.action = "Split"
    /\ LastParsed
    /\ ~LastEarlier
    /\ finalizeCount = 0
    /\ lastItem.platform \in DOMAIN before.platforms
    /\ lastItem.assetCode \in DOMAIN before.platforms[lastItem.platform].stockHoldings
    /\ LastAssetBefore.currency = lastItem.currency
    /\ lastItem.fromToCoefficient > 0
    /\ lastItem.fromTotalShares > 0
    /\ lastItem.toTotalShares > 0

\* what an applied Split leaves: the share count is toTotalShares, totalCash
\* and every cash holding are as before, and one record with cash change 0
\* was appended
LastSplitApplied ==
    /\ LastAssetAfter.shares = lastItem.toTotalShares
    /\ LastAssetAfter.totalCash = LastAssetBefore.totalCash
    /\ \A p \in DOMAIN before.platforms :
           portfolioObj.platforms[p].cashHoldings = before.platforms[p].cashHoldings
    /\ Len(LastAssetAfter.history) = Len(LastAssetBefore.history) + 1
    /\ SubSeq(LastAssetAfter.history, 1, Len(LastAssetBefore.history))
           = LastAssetBefore.history
    /\ LastAssetAfter.history[Len(LastAssetAfter.history)].cashChange = 0

\* C20: a Split is fatal unless fromTotalShares equals the holding's current
\* share count; when it is applied the share count becomes toTotalShares,
\* totalCash and every cash holding are unchanged and one history record
\* with cash change 0 is appended; a toTotalShares other than
\* fromTotalShares x fromToCoefficient only adds a warning.
C20_SplitEffect ==
    LastSplit =>
        /\ lastItem.fromTotalShares # LastAssetBefore.shares => LastCritical
        /\ (lastItem.fromTotalShares = LastAssetBefore.shares
            /\ lastItem.toTotalShares # lastItem.fromTotalShares)
               => (~LastCritical /\ LastSplitApplied)
        /\ (~LastCritical
            /\ lastItem.toTotalShares
                   # lastItem.fromTotalShares * lastItem.fromToCoefficient)
               => (i - 1) \in DOMAIN activityErrorMap

\* a Split whose fromTotalShares matched the holding ended in the fatal error
\* of the change record, with the share count already changed
C20_SplitFatal ==
    /\ LastSplit
    /\ lastItem.fromTotalShares = LastAssetBefore.shares
    /\ LastCritical
    /\ activityErrorMap[i - 1].text = "Invalid StockChangeType"
    /\ LastAssetAfter.shares = lastItem.toTotalShares
    /\ LastAssetAfter.history = LastAssetBefore.history

\* no Split is ever applied
C20_SplitNeverApplied == LastSplit => LastCritical

\* the (platform, key) pairs of the holdings of one kind
CashKeysOf(pf) ==
    UNION { { <<p, c>> : c \in DOMAIN pf.platforms[p].cashHoldings } :
            p \in DOMAIN pf.platforms }

StockKeysOf(pf) ==
    UNION { { <<p, c>> : c \in DOMAIN pf.platforms[p].stockHoldings } :
            p \in DOMAIN pf.platforms }

IndexFundKeysOf(pf) ==
    UNION { { <<p, c>> : c \in DOMAIN pf.platforms[p].indexFundHoldings } :
            p \in DOMAIN pf.platforms }

\* the cash holdings and the asset holdings that the last entry took from a
\* non-negative amount to a negative one
LastOverdrawnCash ==
    { pc_ \in CashKeysOf(before) :
        /\ before.platforms[pc_[1]].cashHoldings[pc_[2]].value >= 0
        /\ portfolioObj.platforms[pc_[1]].cashHoldings[pc_[2]].value < 0 }

LastOverdrawnStock ==
    { ps \in StockKeysOf(before) :
        /\ before.platforms[ps[1]].stockHoldings[ps[2]].shares >= 0
        /\ portfolioObj.platforms[ps[1]].stockHoldings[ps[2]].shares < 0 }

LastOverdrawnIndexFund ==
    { ps \in IndexFundKeysOf(before) :
        /\ before.platforms[ps[1]].indexFundHoldings[ps[2]].shares >= 0
        /\ portfolioObj.platforms[ps[1]].indexFundHoldings[ps[2]].shares < 0 }

LastOverdraft ==
    /\ i > 0
    /\ finalizeCount = 0
    /\ lastItem.action # "none"
    /\ (LastOverdrawnCash \cup LastOverdrawnStock \cup LastOverdrawnIndexFund) # {}

\* every holding the last entry overdrew got a new history record and the
\* entry returned the matching warning
LastOverdraftRecorded ==
    /\ \A pc_ \in LastOverdrawnCash :
        /\ Len(portfolioObj.platforms[pc_[1]].cashHoldings[pc_[2]].history)
               > Len(before.platforms[pc_[1]].cashHoldings[pc_[2]].history)
        /\ \E k \in DOMAIN lastWarnings :
               lastWarnings[k] = "Cash value has become negative."
    /\ \A ps \in LastOverdrawnStock :
        /\ Len(portfolioObj.platforms[ps[1]].stockHoldings[ps[2]].history)
               > Len(before.platforms[ps[1]].stockHoldings[ps[2]].history)
        /\ \E k \in DOMAIN lastWarnings :
               lastWarnings[k] = "Asset count has become negative."
    /\ \A ps \in LastOverdrawnIndexFund :
        /\ Len(portfolioObj.platforms[ps[1]].indexFundHoldings[ps[2]].history)
               > Len(before.platforms[ps[1]].indexFundHoldings[ps[2]].history)
        /\ \E k \in DOMAIN lastWarnings :
               lastWarnings[k] = "Asset count has become negative."

\* C21: an update that takes a cash balance or a share count below zero is
\* applied (amount changed, one history record appended) and returns a
\* warning; it raises no fatal error and the loop goes on.
C21_OverdraftIsWarningOnly ==
    LastOverdraft =>
        /\ ~LastCritical
        /\ (i - 1) \in DOMAIN activityErrorMap
        /\ LastOverdraftRecorded

\* an overdraft of an entry that was not fatal is recorded and warned
C21_OverdraftWarned ==
    (LastOverdraft /\ ~LastCritical) =>
        /\ (i - 1) \in DOMAIN activityErrorMap
        /\ activityErrorMap[i - 1].warnings = lastWarnings
        /\ LastOverdraftRecorded

\* a Sell of stock at unit value zero took the share count below zero and
\* was fatal, without a history record
C21_OverdrawnSellFatal ==
    /\ LastOverdraft
    /\ lastItem.action = "Sell"
    /\ LastOverdrawnStock # {}
    /\ LastCritical
    /\ activityErrorMap[i - 1].text = "unitValue: Zero"
    /\ LastAssetAfter.history = LastAssetBefore.history

\* an updateShares or updateValue call has ended
UpdateDone == ~Pending /\ args.fn \in {"StockHolding.updateShares",
    "BondHolding.updateShares", "IndexFundHolding.updateShares",
    "CashHolding.updateValue"}

\* the call's share delta and its zeroDiff flag disagree
ZeroDiffMismatch == (args.diff = 0) # args.zeroDiff

\* C22: updateShares of a stock, bond or index fund holding takes a zero
\* share delta only with zeroDiff = true and a non-zero delta only with
\* zeroDiff = false; any other combination throws and leaves the holding as
\* it was; CashHolding.updateValue throws on a zero delta, the holding as it
\* was.
C22_ZeroDeltaRule ==
    UpdateDone =>
        IF args.fn = "CashHolding.updateValue"
        THEN args.diff = 0 => (result.err # NoErr /\ result.h = args.h)
        ELSE /\ ZeroDiffMismatch => (result.err # NoErr /\ result.h = args.h)
             /\ result.err = NoErr => ~ZeroDiffMismatch

\* a dividend (zero delta, zeroDiff = true) on a holding with a share was
\* accepted
C22_Witness ==
    /\ UpdateDone
    /\ args.fn = "StockHolding.updateShares"
    /\ args.diff = 0
    /\ args.zeroDiff
    /\ args.h.shares = 1
    /\ result.err = NoErr
    /\ Len(result.h.history) = 2

\* a zero delta with zeroDiff = false was thrown out
C22_ZeroDeltaThrown ==
    /\ UpdateDone
    /\ args.fn = "BondHolding.updateShares"
    /\ args.diff = 0
    /\ ~args.zeroDiff
    /\ result.err = "diff: Zero"

\* a getOrThrow call has ended
GetOrThrowDone == ~Pending /\ args.fn = "VRes.getOrThrow"

\* C23 as stated: getOrThrow throws exactly when the VRes is a failure; on a
\* success it returns the carried value, warnings or not.
C23_GetOrThrowIffFailure ==
    GetOrThrowDone =>
        /\ result.threw <=> args.this.isFailure
        /\ ~args.this.isFailure =>
               args.this.value = IF args.getWithWarnings THEN result.value[1]
                                 ELSE result.value

\* what getOrThrow does: a failure throws; a success with warnings throws
\* too unless getWithWarnings is set; a success returns the carried value,
\* paired with the warnings when getWithWarnings is set
C23_GetOrThrow ==
    GetOrThrowDone =>
        /\ result.threw <=>
               \/ args.this.isFailure
               \/ (Len(args.this.warnings) > 0 /\ ~args.getWithWarnings)
        /\ ~result.threw =>
               result.value = IF args.getWithWarnings
                              THEN <<args.this.value, args.this.warnings>>
                              ELSE args.this.value

\* a success that carries a warning was unwrapped without getWithWarnings and
\* threw
C23_SuccessWithWarningsThrew ==
    /\ GetOrThrowDone
    /\ ~args.this.isFailure
    /\ Len(args.this.warnings) > 0
    /\ ~args.getWithWarnings
    /\ result.threw

\* an and() call with a callback that returns a VRes has ended
AndDone ==
    /\ ~Pending
    /\ args.fn = "VRes.and"
    /\ args.callback # NotAVRes

\* C24: a.and(cb) on a failure a returns a itself, message unchanged, and
\* never invokes cb; on a success a it invokes cb once and the result has the
\* status, value and message of cb's result and the warnings of a followed
\* by the warnings of cb's result.
C24_AndChaining ==
    AndDone =>
        /\ ~result.threw
        /\ args.this.isFailure =>
               /\ result.value = args.this
               /\ result.invoked = 0
        /\ ~args.this.isFailure =>
               /\ result.invoked = 1
               /\ result.value.isFailure = args.callback.isFailure
               /\ result.value.value = args.callback.value
               /\ result.value.message = args.callback.message
               /\ result.value.warnings = args.this.warnings \o args.callback.warnings

\* a success with a warning was chained to a check that returned another
\* warning
C24_Witness ==
    /\ AndDone
    /\ ~args.this.isFailure
    /\ args.this.warnings = <<"w1">>
    /\ args.callback.warnings = <<"w2">>
    /\ result.value.warnings = <<"w1", "w2">>

\* a failure was chained and came back as it was
C24_FailureKept ==
    /\ AndDone
    /\ args.this.isFailure
    /\ ~args.callback.isFailure
    /\ result.value = args.this

\* a findAnyRoot call has ended
FindAnyRootDone == ~Pending /\ args.fn = "findAnyRoot"

\* C25: a number x that findAnyRoot returns lies in [lowerBound, upperBound]
\* and has |fn(x)| <= delta; the bisection makes at most 1000 iterations and
\* stays in the sign-crossing segment the scan found.
C25_SolverResult ==
    FindAnyRootDone =>
        /\ result.kind = "number" =>
               /\ args.lowerBound <= result.x
               /\ result.x <= args.upperBound
               /\ Abs(Fn(args.f, result.x)) <= args.delta
               /\ result.crossing.a <= result.x
               /\ result.x <= result.crossing.b
               /\ OppositeSigns(Fn(args.f, result.crossing.a), Fn(args.f, result.crossing.b))
        /\ result.iterations <= 1000

\* what the code keeps: the returned number lies in the segment the scan
\* found, whose right end the rounded sums x + segmentLength can carry past
\* upperBound
C25_ResultInCrossing ==
    FindAnyRootDone /\ result.kind = "number" =>
        /\ result.crossing.a <= result.x
        /\ result.x <= result.crossing.b
        /\ Abs(Fn(args.f, result.x)) <= args.delta

\* the last scan point lies beyond upperBound and is the number returned
C25_ReturnedBeyondUpperBound ==
    /\ FindAnyRootDone
    /\ result.kind = "number"
    /\ result.x > args.upperBound

\* a root between two scan points was found by bisection after a scan that
\* found nothing
C25_Witness ==
    /\ FindAnyRootDone
    /\ result.kind = "number"
    /\ Len(result.scans) >= 2
    /\ result.iterations >= 2
    /\ result.crossing.a < result.x
    /\ result.x < result.crossing.b

\* the bisection ran its 1000 iterations without reaching delta
C25_BisectionExhausted ==
    /\ FindAnyRootDone
    /\ result.kind = "threw"
    /\ result.iterations = 1000

FindZeroCrossingDone == ~Pending /\ args.fn = "findZeroCrossing"

\* the point the scan reaches after k segments: lowerBound, then x + segmentLength
RECURSIVE ScanPoint(_, _, _)
ScanPoint(lowerBound, segmentLength, k) ==
    IF k = 0 THEN lowerBound
    ELSE FloatAdd(ScanPoint(lowerBound, segmentLength, k - 1), segmentLength)

\* the segments of a scan of n whose endpoint values have strictly opposite signs
CrossingSegments(lowerBound, upperBound, n, f) ==
    LET segmentLength == FloatDiv(FloatSub(upperBound, lowerBound), n) IN
    { k \in 0..(n - 1) :
        LET y == Fn(f, ScanPoint(lowerBound, segmentLength, k))
            y2 == Fn(f, ScanPoint(lowerBound, segmentLength, k + 1))
        IN (y < 0 /\ y2 > 0) \/ (y > 0 /\ y2 < 0) }

\* the result is the left-most segment of the scan with opposite signs, null
\* when there is none
IsLeftmostCrossing(crossing, lowerBound, upperBound, n, f) ==
    LET K == CrossingSegments(lowerBound, upperBound, n, f)
        segmentLength == FloatDiv(FloatSub(upperBound, lowerBound), n)
    IN IF K = {} THEN crossing = Null
       ELSE LET k == CHOOSE m \in K : \A o \in K : m <= o IN
            /\ crossing # Null
            /\ crossing.a = ScanPoint(lowerBound, segmentLength, k)
            /\ crossing.b = ScanPoint(lowerBound, segmentLength, k + 1)

RECURSIVE SumSeq(_)
SumSeq(q) == IF q = <<>> THEN 0 ELSE Head(q) + SumSeq(Tail(q))

C26_OutOfBudget ==
    /\ FindAnyRootDone
    /\ result.kind = "NaN"
    /\ Len(result.scans) >= 2
    /\ Pow2(Len(result.scans) + 1) > args.budget - SumSeq(result.scans)

FinalizeXirrDone == ~Pending /\ args.fn = "BondHolding.validateAndFinalize"

\* findAnyRoot ran out of budget without a sign-crossing segment
SolverOutOfBudget(solved) == solved.kind = "NaN"

\* findAnyRoot threw after the 1000 iterations of its bisection
SolverNotConverged(solved) ==
    /\ solved.kind = "threw"
    /\ "iterations" \in DOMAIN solved
    /\ solved.iterations = BinarySearchIterations

\* C27: when the solver finds no sign-crossing segment within its budget or
\* its bisection does not reach delta in 1000 iterations, the holding's XIRR
\* is a failure text and no exception leaves the holding's finalize.
C27_SolverFailureIsValue ==
    FinalizeXirrDone
    /\ (SolverOutOfBudget(result.solver) \/ SolverNotConverged(result.solver))
    => /\ ~result.threw
       /\ result.xirr = "failure message"

\* the bisection did not converge and the error left validateAndFinalize
C27_NotConvergedEscapes ==
    /\ FinalizeXirrDone
    /\ SolverNotConverged(result.solver)
    /\ result.threw

\* the solver ran out of budget and the holding's xirr is the Decimal NaN
C27_OutOfBudgetIsNaN ==
    /\ FinalizeXirrDone
    /\ SolverOutOfBudget(result.solver)
    /\ ~result.threw
    /\ result.xirr = "Decimal NaN"

\* what the code keeps: finalize throws exactly when xirr throws
C27_FinalizeThrowsWithXirr ==
    FinalizeXirrDone /\ args.history # <<>> =>
        (result.threw <=> result.solver.kind = "threw")

CalculateXirrDone == ~Pending /\ args.fn = "calculateXirr"

XirrDone == ~Pending /\ args.fn = "xirr"

\* the entries of a list that no other entry is dated after
LatestDated(pairs) ==
    { k \in 1..Len(pairs) : \A o \in 1..Len(pairs) : pairs[o].time <= pairs[k].time }

\* the number of entries of a list equal to e
Occurrences(pairs, e) == Cardinality({ k \in 1..Len(pairs) : pairs[k] = e })

C28_OneSignedRejected ==
    /\ XirrDone
    /\ Len(args.transactions) = 2
    /\ \A k \in 1..2 : args.transactions[k].cashFlow > 0
    /\ result.kind = "threw"

\* the calendar day of the earliest flow
EarliestDay(transactions) ==
    CHOOSE d \in { getLocalDate(transactions[k].time) : k \in 1..Len(transactions) } :
        \A k \in 1..Len(transactions) : d <= getLocalDate(transactions[k].time)

BothSigns(transactions) ==
    /\ \E k \in 1..Len(transactions) : transactions[k].cashFlow > 0
    /\ \E k \in 1..Len(transactions) : transactions[k].cashFlow < 0

\* C29: xirr gives every flow the number of calendar days from the earliest
\* date among the flows to its date, in whatever order the flows are
\* supplied; flows on one calendar day get one offset.
C29_DayOffsetsFromEarliest ==
    XirrDone /\ BothSigns(args.transactions) =>
        /\ "days" \in DOMAIN result
        /\ \A k \in 1..Len(args.transactions) :
               result.days[k] = getLocalDate(args.transactions[k].time)
                                    - EarliestDay(args.transactions)

\* what the code keeps: the offsets count from the first flow supplied, and
\* xirr throws when a later flow lies before it, be it on the same day
C29_DayOffsetsFromFirst ==
    XirrDone /\ BothSigns(args.transactions) =>
        IF \E k \in 1..Len(args.transactions) :
               args.transactions[k].time < args.transactions[1].time
        THEN result = XirrThrown("b must be greater than a")
        ELSE \A k \in 1..Len(args.transactions) :
                 result.days[k] = getLocalDate(args.transactions[k].time)
                                      - getLocalDate(args.transactions[1].time)

\* two flows of one calendar day, the later one supplied first: xirr threw
C29_SameDayThrew ==
    /\ XirrDone
    /\ Len(args.transactions) = 2
    /\ BothSigns(args.transactions)
    /\ getLocalDate(args.transactions[1].time) = getLocalDate(args.transactions[2].time)
    /\ result.kind = "threw"
    /\ "days" \notin DOMAIN result

\* the flows as simulateNetFutureValue takes them, days counted from the
\* earliest calendar day
Schedule(transactions) ==
    [k \in 1..Len(transactions) |->
        [amount |-> transactions[k].cashFlow,
         days |-> getLocalDate(transactions[k].time) - EarliestDay(transactions)]]

\* the rates r0 strictly inside the range that are floating-point numbers
\* and under which the net future value of the flows is zero
ZeroRates(transactions) ==
    { r0 \in (1 - Half)..(Half - 1) :
        /\ RoundToPrecision(r0) = r0
        /\ simulateNetFutureValue(Schedule(transactions), r0) = 0 }

\* C30: for flows with an outflow and an inflow whose net future value is
\* zero under a rate r0 strictly inside the range, xirr returns a rate within
\* 1e-6 of r0, which between two rates of the model is equality.
C30_RoundTrip ==
    XirrDone /\ BothSigns(args.transactions) =>
        \A r0 \in ZeroRates(args.transactions) :
            /\ result.kind = "number"
            /\ result.x = r0

\* flows supplied in date order whose net future value is zero under two
\* rates of the range: xirr returned the lower one
C30_OtherRootReturned ==
    /\ XirrDone
    /\ \A k \in 1..(Len(args.transactions) - 1) :
           args.transactions[k].time < args.transactions[k + 1].time
    /\ result.kind = "number"
    /\ result.x \in ZeroRates(args.transactions)
    /\ \E r0 \in ZeroRates(args.transactions) : r0 > result.x

\* what the code keeps: a number xirr returns is a rate under which the net
\* future value of the flows is zero within delta
C30_ReturnedRateIsRoot ==
    XirrDone /\ result.kind = "number" =>
        simulateNetFutureValue(Schedule(args.transactions), result.x) = 0

\* flows with a single rate of zero net future value, which xirr returned
C30_RateRecovered ==
    /\ XirrDone
    /\ result.kind = "number"
    /\ result.x # 0
    /\ ZeroRates(args.transactions) = {result.x}

FinalizeStarted == ~Pending /\ args.fn = "Portfolio.validateAndFinalize"

\* C31: when processActivityList returns, validateAndFinalize of every
\* holding has completed, in whatever order the price lookups resolved, and
\* the caller reads the XIRR text of no holding whose finalize is pending.
C31_FinalizeCompleteOnReturn ==
    FinalizeStarted =>
        /\ result.caller = "returned" =>
               \A k \in 1..3 : result.status[k] = "fulfilled"
        /\ \A k \in result.read : result.status[k] = "fulfilled"

\* at least two lookups were in flight, all resolved, processActivityList
\* returned and the caller read a holding
C31_Witness ==
    /\ FinalizeStarted
    /\ result.caller = "returned"
    /\ result.read # {}
    /\ Cardinality({ k \in 1..3 : args.holdings[k].shares > 0 }) >= 2

\* a holding's finalize threw while another's lookup was still in flight, and
\* processActivityList threw with it
C31_ThrewWhileAwaiting ==
    /\ FinalizeStarted
    /\ result.caller = "threw"
    /\ \E k \in 1..3 : result.status[k] = "awaiting"

CriticalKeys == { k \in DOMAIN activityErrorMap : activityErrorMap[k].critical }

\* C32: the index-to-message map holds at most one critical message;
\* criticalErrorOccurred is true exactly when it holds one, whose key is then
\* the largest key of the map and the index of the last entry processed; once
\* the loop has ended without one, every key holds a warnings message and
\* every entry of the ledger was processed.
C32_MapShape ==
    /\ Cardinality(CriticalKeys) <= 1
    /\ criticalErrorOccurred <=> CriticalKeys # {}
    /\ \A k \in CriticalKeys :
           /\ \A o \in DOMAIN activityErrorMap : o <= k
           /\ processed # <<>>
           /\ k = processed[Len(processed)]
    /\ pc # "loop" /\ ~criticalErrorOccurred =>
           /\ \A k \in DOMAIN activityErrorMap :
                  /\ ~activityErrorMap[k].critical
                  /\ Len(activityErrorMap[k].warnings) > 0
           /\ processed = [k \in 1..ledgerLen |-> k - 1]

\* a ledger whose replay returned with a warnings message followed by the
\* critical message
C32_Witness ==
    /\ pc = "returned"
    /\ criticalErrorOccurred
    /\ Cardinality(DOMAIN activityErrorMap) >= 2
    /\ Cardinality(CriticalKeys) = 1

\* a ledger replayed to its end with warnings only
C32_WarningsOnly ==
    /\ pc = "returned"
    /\ ~criticalErrorOccurred
    /\ DOMAIN activityErrorMap # {}
    /\ Len(processed) = ledgerLen

\* ---------------------------------------------------------------- C33
NotImplementedMessages ==
    {"Processing is not implemented",
     "Processing of Interest for asset type is not implemented",
     "Processing of Buy for asset type is not implemented",
     "Processing of Sell for asset type is not implemented",
     "Processing of Check for asset type is not implemented",
     "Processing of NewAsset for asset type is not implemented"}

ProcessActionDone == args.fn = "processAction" /\ result # <<>>

DispatchParsed ==
    parseActionInputsByNames(DispatchEntry(args.action, args.assetType)).err = NoErr

\* C33: every (action, assetType) pair with a field set has a handler: once
\* the entry of such a pair has parsed, processAction never ends in one of
\* the "not implemented" default branches; an entry of a pair without a
\* field set is rejected by the parser, and the portfolio, its date
\* watermark included, is what it was.
C33_DispatchCoverage ==
    ProcessActionDone =>
        /\ DispatchParsed => result.err \notin NotImplementedMessages
        /\ getInputsByActionAndAsset(args.action, args.assetType) = {} =>
               /\ ~DispatchParsed
               /\ result.err = "Problem parsing input"
               /\ result.pf = args.portfolioObj

\* a pair with a field set was parsed, dispatched and applied
C33_Witness ==
    /\ ProcessActionDone
    /\ args.action = "Sell" /\ args.assetType = "IndexFund"
    /\ DispatchParsed
    /\ "feeValue" \notin getInputsByActionAndAsset(args.action, args.assetType)
    /\ result.err \notin NotImplementedMessages

\* Sell of Bond, a pair without a field set, was rejected by the parser
C33_SellBondRejected ==
    /\ ProcessActionDone
    /\ args.action = "Sell" /\ args.assetType = "Bond"
    /\ result.err = "Problem parsing input"
    /\ result.pf = args.portfolioObj

\* an entry was applied without an error
C33_Applied ==
    ProcessActionDone /\ result.err = NoErr /\ result.pf # args.portfolioObj

\* ---------------------------------------------------------------- C34
Replayed == pc \in {"returned", "threw"} /\ ~criticalErrorOccurred

\* C34: after a ledger replayed without a fatal error, every Stock, Bond and
\* IndexFund holding with at least one history record has a latest unit
\* value and date, and no holding's finalize fails with "Latest unit value
\* not set despite having history".
C34_LatestPriceWithHistory ==
    Replayed =>
        /\ \A h \in AssetHoldingsOf(portfolioObj) :
               Len(h.history) > 0 => h.latestUnitValueAndDate # <<>>
        /\ "Latest unit value not set despite having history" \notin finalizeErrors

\* a stock holding whose only record is a dividend has no latest unit value
\* and its finalize throws
C34_DividendOnly ==
    /\ Replayed
    /\ \E h \in StockHoldingsOf(portfolioObj) :
           /\ Len(h.history) = 1
           /\ h.history[1].type = "DIVIDEND"
           /\ h.latestUnitValueAndDate = <<>>
    /\ pc = "threw"
    /\ finalizeErrors = {"Latest unit value not set despite having history"}

\* a bond holding whose only record is an interest payment, likewise
C34_InterestOnly ==
    /\ Replayed
    /\ \E h \in BondHoldingsOf(portfolioObj) :
           /\ Len(h.history) = 1
           /\ h.history[1].type = "INTEREST"
           /\ h.latestUnitValueAndDate = <<>>
    /\ "Latest unit value not set despite having history" \in finalizeErrors

\* bought holdings have the unit value of the purchase
C34_BoughtHasLatest ==
    /\ pc = "returned" /\ finalizeCount = 1
    /\ \E h \in AssetHoldingsOf(portfolioObj) :
           Len(h.history) > 0 /\ h.latestUnitValueAndDate # <<>>

\* what the code does keep: a holding with a purchase or a sale among its
\* records has a latest unit value
C34_TradedHasLatest ==
    \A h \in AssetHoldingsOf(portfolioObj) :
        (\E k \in 1..Len(h.history) : h.history[k].type \in {"BUY", "SELL"})
            => h.latestUnitValueAndDate # <<>>

\* ---------------------------------------------------------------- C35
Bisecting == ~Pending /\ result.phase = "bisection"

OppositeAtBounds ==
    OppositeSigns(Fn(args.f, result.lo), Fn(args.f, result.hi))

InsideCrossing ==
    /\ result.crossing.a <= result.lo
    /\ result.lo < result.hi
    /\ result.hi <= result.crossing.b

\* C35 as stated: while findAnyRoot bisects, fn has strictly opposite signs
\* at the two bounds, the bracket lies inside the crossing the scan returned,
\* and an iteration that did not return moved exactly one bound and left a
\* bracket of half the width.
C35_BracketHalves ==
    Bisecting =>
        /\ OppositeAtBounds
        /\ InsideCrossing
        /\ result.prev # <<>> =>
               /\ (result.lo = result.prev[1].lo) # (result.hi = result.prev[1].hi)
               /\ 2 * (result.hi - result.lo) = result.prev[1].hi - result.prev[1].lo

\* C35, amended: the signs and the containment as stated; an iteration that
\* did not return took one shrink branch, which puts the midpoint as computed
\* by getMid in the place of one bound: the bracket does not widen, and it
\* is the bracket the iteration started from when the midpoint is a bound.
C35_BracketShrinks ==
    Bisecting =>
        /\ OppositeAtBounds
        /\ InsideCrossing
        /\ result.prev # <<>> =>
               LET m == BinarySearch_getMid(result.prev[1].lo, result.prev[1].hi) IN
               /\ result.prev[1].lo <= m /\ m <= result.prev[1].hi
               /\ \/ result.lo = result.prev[1].lo /\ result.hi = m
                  \/ result.lo = m /\ result.hi = result.prev[1].hi

\* a third iteration is about to start on a bracket halved twice
C35_Witness ==
    /\ Bisecting
    /\ result.j = 2
    /\ 4 * (result.hi - result.lo) = result.crossing.b - result.crossing.a

\* an iteration returned nothing and left the bracket as it was: the
\* midpoint of two neighbouring numbers is one of them
C35_StuckIteration ==
    /\ Bisecting
    /\ result.prev # <<>>
    /\ result.lo = result.prev[1].lo /\ result.hi = result.prev[1].hi
    /\ BinarySearch_getMid(result.lo, result.hi) \in {result.lo, result.hi}

\* the bracket narrowed, but not to half its width
C35_RoundedMidpoint ==
    /\ Bisecting
    /\ result.prev # <<>>
    /\ result.hi - result.lo < result.prev[1].hi - result.prev[1].lo
    /\ 2 * (result.hi - result.lo) # result.prev[1].hi - result.prev[1].lo

\* ---------------------------------------------------------------- C36
OppositeAtEnds ==
    OppositeSigns(Fn(args.f, args.lowerBound), Fn(args.f, args.upperBound))

\* the points of a scan of n segments at which fn is exactly zero
GridRoots(lowerBound, upperBound, n, f) ==
    LET segmentLength == FloatDiv(FloatSub(upperBound, lowerBound), n) IN
    { x \in { ScanPoint(lowerBound, segmentLength, k) : k \in 0..n } : Fn(f, x) = 0 }

\* C36: when fn has opposite signs at lower and upper and is exactly zero at
\* a point of the scan, findZeroCrossing reports a segment containing such a
\* point; when it is zero at the midpoint, a point of the first scan,
\* findAnyRoot returns a root and not NaN.
C36_GridRootFound ==
    /\ FindZeroCrossingDone /\ OppositeAtEnds
         /\ GridRoots(args.lowerBound, args.upperBound, args.nSegments, args.f) # {}
         => /\ result.crossing # Null
            /\ \E x \in GridRoots(args.lowerBound, args.upperBound,
                                  args.nSegments, args.f) :
                   result.crossing.a <= x /\ x <= result.crossing.b
    /\ FindAnyRootDone /\ OppositeAtEnds
         /\ GridRoots(args.lowerBound, args.upperBound, 2, args.f) # {}
         => /\ result.kind = "number"
            /\ Abs(Fn(args.f, result.x)) <= args.delta

\* a scan of two segments over a line through the midpoint found no crossing
C36_MidpointRootMissed ==
    /\ FindZeroCrossingDone
    /\ args.nSegments = 2
    /\ args.f.kind = "line" /\ args.f.r = 0
    /\ result.crossing = Null

\* findAnyRoot answered NaN for a line whose only root is the midpoint
C36_MidpointRootNaN ==
    /\ FindAnyRootDone
    /\ args.f.kind = "line" /\ args.f.r = 0
    /\ Len(result.scans) >= 2
    /\ result.kind = "NaN"

\* what the scan does with a zero at a point: neither segment that ends
\* there counts as a crossing
C36_ZeroEndsNoCrossing ==
    FindZeroCrossingDone /\ result.crossing # Null =>
        /\ Fn(args.f, result.crossing.a) # 0
        /\ Fn(args.f, result.crossing.b) # 0

\* ---------------------------------------------------------------- C37
TotalSharesChecked == ~Pending /\ args.fn = "validateTotalSharesTransactionValue"

ConversionChecked ==
    ~Pending /\ args.fn = "validateCurrencyConversionTransactionValue"

ExactTotal ==
    Decimal_equals(args.totalValue, Decimal_times(args.unitValue, args.totalShares))

ExactToValue ==
    Decimal_equals(args.toValue, Decimal_times(args.fromToCoefficient, args.fromValue))

\* C37 as stated: a totalValue that equals unitValue x totalShares exactly
\* draws no warning from validateTotalSharesTransactionValue, and a toValue
\* that equals fromValue x fromToCoefficient exactly draws none from
\* validateCurrencyConversionTransactionValue.
C37_ExactNeverWarns ==
    /\ TotalSharesChecked /\ ExactTotal => result.warnings = <<>>
    /\ ConversionChecked /\ ExactToValue => result.warnings = <<>>

\* C37, amended: an exact totalValue or toValue draws no warning when it has
\* at most 2 decimals, and draws the mismatch warning when it has 3 or 4,
\* the product being rounded (or floored) to 2 decimals before it is compared.
C37_ExactWarnsBeyondTwoDecimals ==
    /\ TotalSharesChecked /\ ExactTotal =>
           (result.warnings = <<>> <=> Decimal_decimalPlaces(args.totalValue) <= 2)
    /\ ConversionChecked /\ ExactToValue =>
           (result.warnings = <<>> <=> Decimal_decimalPlaces(args.toValue) <= 2)

\* an exact total of two decimals, from a unit value and a share count of one
\* decimal each, passed without a warning
C37_Witness ==
    /\ TotalSharesChecked
    /\ ExactTotal
    /\ Decimal_decimalPlaces(args.unitValue) = 1
    /\ Decimal_decimalPlaces(args.totalShares) = 1
    /\ Decimal_decimalPlaces(args.totalValue) = 2
    /\ result.warnings = <<>>

\* an exact total of three decimals drew the warning
C37_ExactTotalWarned ==
    /\ TotalSharesChecked
    /\ ExactTotal
    /\ Decimal_decimalPlaces(args.totalValue) = 3
    /\ result.warnings # <<>>

\* an exact toValue of four decimals drew the warning
C37_ExactToValueWarned ==
    /\ ConversionChecked
    /\ ExactToValue
    /\ Decimal_decimalPlaces(args.toValue) = 4
    /\ result.warnings # <<>>

\* a toValue equal to the floored product, which differs from the rounded
\* one, passed
C37_FlooredAccepted ==
    /\ ConversionChecked
    /\ ~ExactToValue
    /\ ~Decimal_equals(args.toValue,
            Decimal_toDecimalPlaces(Decimal_times(args.fromToCoefficient, args.fromValue),
                                    2, "ROUND_HALF_UP"))
    /\ result.warnings = <<>>

\* ---------------------------------------------------------------- C38
BisectionEnded == ~Pending /\ result.phase \in {"returned", "NaN", "threw"}

\* the budget xirr hands to findAnyRoot
XirrBudget == 10000

\* the outer loop of findAnyRoot when no scan finds a crossing: the scans a
\* budget pays for
RECURSIVE findAnyRootScans(_, _, _)
findAnyRootScans(budget, segments, k) ==
    IF k >= ScanRounds \/ segments > budget THEN <<>>
    ELSE <<segments>> \o findAnyRootScans(budget - segments, segments * 2, k + 1)

IsPrefix(p, q) == Len(p) <= Len(q) /\ p = SubSeq(q, 1, Len(p))

\* what is left of the budget when scan k starts
RemainingBudget(k) == args.budget - SumSeq(SubSeq(result.scans, 1, k - 1))

ScansWithinBudget ==
    ~Pending =>
        /\ \A k \in 1..Len(result.scans) :
               /\ result.scans[k] = Pow2(k)
               /\ result.scans[k] <= RemainingBudget(k)
        /\ IsPrefix(result.scans, findAnyRootScans(args.budget, 2, 0))
        /\ result.phase = "NaN" => result.scans = findAnyRootScans(args.budget, 2, 0)

TwelveScans ==
    /\ Len(findAnyRootScans(XirrBudget, 2, 0)) = 12
    /\ \A k \in 1..12 : findAnyRootScans(XirrBudget, 2, 0)[k] = Pow2(k)
    /\ Pow2(12) = 4096

ThrowsAfterLastIteration ==
    ~Pending /\ result.phase = "threw" => result.j = BinarySearchIterations

\* a step of a call that has started takes it to its end or begins a further
\* iteration of the bisection
Progress ==
    ~Pending => \/ result'.phase # result.phase
                \/ result'.j > result.j

\* C38: every call of findAnyRoot ends, by returning a number, by returning
\* NaN, or by raising once the bisection has made its 1000 iterations: every
\* step of a call brings the end or a further iteration of the bisection,
\* and there are at most 1000 of these; no scan has more
\* segments than the budget left when it starts, the scans made are the first
\* of those the budget pays for, and a budget of 10000 pays for 12 scans, of
\* 2 up to 4096 segments.
C38_Terminates ==
    /\ [](~Pending => /\ result.phase \in {"bisection", "returned", "NaN", "threw"}
                      /\ result.j <= BinarySearchIterations)
    /\ [][Progress]_vars
    /\ [](ScansWithinBudget /\ ThrowsAfterLastIteration /\ TwelveScans)

\* a call spent its budget on every scan it pays for, the last of them of
\* all the budget that was left, and ended in NaN
C38_Witness ==
    /\ BisectionEnded
    /\ result.phase = "NaN"
    /\ Len(result.scans) = MaxScan
    /\ result.scans[MaxScan] = RemainingBudget(MaxScan)

\* calls ended in the two other ways
C38_Threw == BisectionEnded /\ result.phase = "threw"

C38_Returned == BisectionEnded /\ result.phase = "returned" /\ result.j > 1

====
